---- MODULE Spec2Model ----
(***************************************************************************)
(* Model of the darija-app-data curation scripts.                          *)
(*                                                                         *)
(*   scripts/_merge_categorization_into_dataset.py  load_dataset,          *)
(*       load_logs, is_meaningful, merge, main                             *)
(*   scripts/_merge_validation_into_dataset.py      merge                  *)
(*                                                                         *)
(* JSON values are tagged records [k, v]: k is the Python type, v the      *)
(* payload as a sequence of character tokens (strings), of items (lists)   *)
(* or a one-element sequence (bool, int).  A dict (a dataset entry, an     *)
(* annotation record) is a function from its keys to JSON values.          *)
(***************************************************************************)
EXTENDS Integers, Sequences, FiniteSets, TLC

VARIABLES
    dataset_file,      \* content of DATASET_PATH
    logs_file,         \* content of LOGS_PATH: the sequence of its lines
    out_file,          \* content of OUT_PATH
    log_out_file,      \* content of LOG_OUT_PATH
    DRY_RUN,           \* the module-level dry-run switch
    dataset,           \* main's local: the loaded (then merged) dataset
    logs_by_id,        \* main's local: id -> annotation record
    validation_by_id,  \* main's local (validation merge): id -> validation record
    log_records,       \* main's local: the change log
    stats,             \* main's local: the counters
    err,               \* the exception that ended the run, if any
    pc,                \* position of the run
    validation_logs_file, \* content of VALIDATION_LOGS_PATH: its lines
    backup_file,       \* content of the .bak.json file next to the dataset
    md_log_file,       \* content of the markdown log of update_categories
    inplace,           \* the run writes the dataset file itself
    arg,               \* a call's argument as the caller passed it
    target,            \* the object a call works on in place
    ret,               \* a call's return value
    csv_files          \* content of the category CSV files under --base-dir

vars == <<dataset_file, logs_file, out_file, log_out_file, DRY_RUN,
          dataset, logs_by_id, validation_by_id, log_records, stats, err, pc,
          validation_logs_file, backup_file, md_log_file, inplace, arg, target, ret,
          csv_files>>

\* variables of the _add_future and update_categories scripts only
notMerge == <<backup_file, md_log_file, inplace, arg, target, ret, csv_files>>

\* variables the categorization merge script does not have
notCategorization == <<validation_by_id, validation_logs_file, notMerge>>

\* variables the validation merge script does not have
notValidation == <<logs_file, logs_by_id, notMerge>>

\* ------------------------------------------------------------ bounds
\* longest dataset given to merge
MaxEntries == 2
\* most lines of an annotation source
MaxLines == 3

\* ------------------------------------------------------- JSON values
None == [k |-> "none", v |-> <<>>]
Str(s) == [k |-> "str", v |-> s]
List(l) == [k |-> "list", v |-> l]
Bool(b) == [k |-> "bool", v |-> <<b>>]
Num(n) == [k |-> "int", v |-> <<n>>]
\* a nested dict: its <<key, value>> pairs in insertion order
Dict(pairs) == [k |-> "dict", v |-> pairs]

\* Python truthiness of a JSON value (`not entry_id`, `if ts_str`)
Truthy(x) ==
    CASE x.k = "none" -> FALSE
      [] x.k = "str"  -> x.v # <<>>
      [] x.k = "list" -> x.v # <<>>
      [] x.k = "bool" -> x.v = <<"True">>
      [] x.k = "int"  -> x.v # <<"0">>
      [] x.k = "dict" -> x.v # <<>>
      [] OTHER        -> TRUE

\* dict.get(key): the value, or None when the key is absent
Get(d, key) == IF key \in DOMAIN d THEN d[key] ELSE None

\* d[key] = val on a dict
SetItem(d, key, val) == [f \in DOMAIN d \cup {key} |-> IF f = key THEN val ELSE d[f]]

\* str.strip(): leading and trailing whitespace removed
RECURSIVE LStrip(_)
LStrip(s) == IF s # <<>> /\ Head(s) = " " THEN LStrip(Tail(s)) ELSE s

RECURSIVE RStrip(_)
RStrip(s) ==
    IF s # <<>> /\ s[Len(s)] = " " THEN RStrip(SubSeq(s, 1, Len(s) - 1)) ELSE s

Strip(s) == RStrip(LStrip(s))

\* -------------------------------- _merge_categorization_into_dataset
WHITELIST_FIELDS ==
    << "frequency_score", "is_daily_darija", "is_standard_arabic",
       "user_summary_de", "user_summary_en", "category_confidence",
       "category" >>

\* mutant: Python truthiness (`if dst_val:`) instead of the three tests
is_meaningful_truthy(value) == Truthy(value)

\* mutant: only None counts as empty
is_meaningful_not_none(value) == value.k # "none"

is_meaningful(value) ==
    IF value.k = "none" THEN FALSE
    ELSE IF value.k = "str" /\ Strip(value.v) = <<>> THEN FALSE
    ELSE IF value.k = "list" /\ Len(value.v) = 0 THEN FALSE
    ELSE TRUE

NewStats(ds) ==
    [ entries_total            |-> Len(ds),
      entries_with_log         |-> 0,
      fields_added             |-> 0,
      fields_skipped_overwrite |-> 0,
      entries_modified         |-> 0,
      entries_unmatched        |-> 0 ]

SkipRecord(entry_id, field, dst_val, src_val) ==
    [ id |-> entry_id, action |-> "skip_overwrite", field |-> field,
      existing_value |-> dst_val, new_value_ignored |-> src_val ]

AddRecord(entry_id, field, src_val) ==
    [ id |-> entry_id, action |-> "add_field", field |-> field,
      value |-> src_val ]

\* mutant: a skipped overwrite is logged but not counted
MergeField_skip_uncounted(st, src, entry_id, field) ==
    IF field \notin DOMAIN src THEN st
    ELSE
        LET src_val == src[field]
            dst_has == field \in DOMAIN st.entry
            dst_val == Get(st.entry, field)
        IN  IF dst_has /\ is_meaningful(dst_val)
            THEN [st EXCEPT
                    !.log_records =
                        Append(@, SkipRecord(entry_id, field, dst_val, src_val))]
            ELSE [st EXCEPT
                    !.entry = SetItem(@, field, src_val),
                    !.log_records = Append(@, AddRecord(entry_id, field, src_val)),
                    !.stats.fields_added = @ + 1,
                    !.entry_modified = TRUE]

\* One pass of the `for field in WHITELIST_FIELDS` body.  st carries the
\* entry being merged, the change log, the counters and entry_modified.
MergeField(st, src, entry_id, field) ==
    IF field \notin DOMAIN src THEN st
    ELSE
        LET src_val == src[field]
            dst_has == field \in DOMAIN st.entry
            dst_val == Get(st.entry, field)
        IN  IF dst_has /\ is_meaningful(dst_val)
            THEN [st EXCEPT
                    !.log_records =
                        Append(@, SkipRecord(entry_id, field, dst_val, src_val)),
                    !.stats.fields_skipped_overwrite = @ + 1]
            ELSE [st EXCEPT
                    !.entry = SetItem(@, field, src_val),
                    !.log_records = Append(@, AddRecord(entry_id, field, src_val)),
                    !.stats.fields_added = @ + 1,
                    !.entry_modified = TRUE]

\* mutant: the loop runs over every key of the annotation (`for field in src`)
RECURSIVE MergeKeys(_, _, _, _)
MergeKeys(st, src, entry_id, keys) ==
    IF keys = {} THEN st
    ELSE LET key == CHOOSE x \in keys : TRUE
         IN  MergeKeys(MergeField(st, src, entry_id, key), src, entry_id,
                       keys \ {key})

MergeFields_every_key(st, src, entry_id, n) ==
    MergeKeys(st, src, entry_id, DOMAIN src)

\* mutant: the whitelist is walked from its last field to its first
RECURSIVE MergeFieldsDown(_, _, _, _)
MergeFieldsDown(st, src, entry_id, n) ==
    IF n < 1 THEN st
    ELSE MergeFieldsDown(MergeField(st, src, entry_id, WHITELIST_FIELDS[n]),
                         src, entry_id, n - 1)

MergeFields_reversed(st, src, entry_id, n) ==
    MergeFieldsDown(st, src, entry_id, Len(WHITELIST_FIELDS))

\* The `for field in WHITELIST_FIELDS` loop from position n on.
RECURSIVE MergeFields(_, _, _, _)
MergeFields(st, src, entry_id, n) ==
    IF n > Len(WHITELIST_FIELDS) THEN st
    ELSE MergeFields(MergeField(st, src, entry_id, WHITELIST_FIELDS[n]),
                     src, entry_id, n + 1)

\* logs_by_id.get(entry_id) is truthy: a non-empty record is indexed
HasLog(by_id, entry_id) == entry_id \in DOMAIN by_id /\ DOMAIN by_id[entry_id] # {}

\* mutant: a record without id is counted as unmatched
MergeEntry_counts_no_id(acc, by_id, i) ==
    LET entry    == acc.dataset[i]
        entry_id == Get(entry, "id")
    IN  IF ~Truthy(entry_id) \/ ~HasLog(by_id, entry_id)
        THEN [acc EXCEPT !.stats.entries_unmatched = @ + 1]
        ELSE
            LET st0 == [ entry |-> entry,
                         log_records |-> acc.log_records,
                         stats |-> [acc.stats EXCEPT !.entries_with_log = @ + 1],
                         entry_modified |-> FALSE ]
                st  == MergeFields(st0, by_id[entry_id], entry_id, 1)
            IN  [ dataset     |-> [acc.dataset EXCEPT ![i] = st.entry],
                  log_records |-> st.log_records,
                  stats       |-> IF st.entry_modified
                                  THEN [st.stats EXCEPT !.entries_modified = @ + 1]
                                  ELSE st.stats ]

\* mutant: an unmatched record is skipped without being counted
MergeEntry_unmatched_uncounted(acc, by_id, i) ==
    LET entry    == acc.dataset[i]
        entry_id == Get(entry, "id")
    IN  IF ~Truthy(entry_id) \/ ~HasLog(by_id, entry_id) THEN acc
        ELSE
            LET st0 == [ entry |-> entry,
                         log_records |-> acc.log_records,
                         stats |-> [acc.stats EXCEPT !.entries_with_log = @ + 1],
                         entry_modified |-> FALSE ]
                st  == MergeFields(st0, by_id[entry_id], entry_id, 1)
            IN  [ dataset     |-> [acc.dataset EXCEPT ![i] = st.entry],
                  log_records |-> st.log_records,
                  stats       |-> IF st.entry_modified
                                  THEN [st.stats EXCEPT !.entries_modified = @ + 1]
                                  ELSE st.stats ]

\* mutant: a record without annotation is counted as one that has a log
MergeEntry_unmatched_as_matched(acc, by_id, i) ==
    LET entry    == acc.dataset[i]
        entry_id == Get(entry, "id")
    IN  IF ~Truthy(entry_id) THEN acc
        ELSE IF ~HasLog(by_id, entry_id)
        THEN [acc EXCEPT !.stats.entries_with_log = @ + 1]
        ELSE
            LET st0 == [ entry |-> entry,
                         log_records |-> acc.log_records,
                         stats |-> [acc.stats EXCEPT !.entries_with_log = @ + 1],
                         entry_modified |-> FALSE ]
                st  == MergeFields(st0, by_id[entry_id], entry_id, 1)
            IN  [ dataset     |-> [acc.dataset EXCEPT ![i] = st.entry],
                  log_records |-> st.log_records,
                  stats       |-> IF st.entry_modified
                                  THEN [st.stats EXCEPT !.entries_modified = @ + 1]
                                  ELSE st.stats ]

\* mutant: every matched record is counted as modified
MergeEntry_modified_per_match(acc, by_id, i) ==
    LET entry    == acc.dataset[i]
        entry_id == Get(entry, "id")
    IN  IF ~Truthy(entry_id) THEN acc
        ELSE IF ~HasLog(by_id, entry_id)
        THEN [acc EXCEPT !.stats.entries_unmatched = @ + 1]
        ELSE
            LET st0 == [ entry |-> entry,
                         log_records |-> acc.log_records,
                         stats |-> [acc.stats EXCEPT !.entries_with_log = @ + 1],
                         entry_modified |-> FALSE ]
                st  == MergeFields(st0, by_id[entry_id], entry_id, 1)
            IN  [ dataset     |-> [acc.dataset EXCEPT ![i] = st.entry],
                  log_records |-> st.log_records,
                  stats       |-> [st.stats EXCEPT !.entries_modified = @ + 1] ]

\* One pass of the `for entry in dataset` body on dataset[i].  acc carries
\* the dataset (mutated in place), the change log and the counters.
MergeEntry(acc, by_id, i) ==
    LET entry    == acc.dataset[i]
        entry_id == Get(entry, "id")
    IN  IF ~Truthy(entry_id) THEN acc
        ELSE IF ~HasLog(by_id, entry_id)
        THEN [acc EXCEPT !.stats.entries_unmatched = @ + 1]
        ELSE
            LET st0 == [ entry |-> entry,
                         log_records |-> acc.log_records,
                         stats |-> [acc.stats EXCEPT !.entries_with_log = @ + 1],
                         entry_modified |-> FALSE ]
                st  == MergeFields(st0, by_id[entry_id], entry_id, 1)
            IN  [ dataset     |-> [acc.dataset EXCEPT ![i] = st.entry],
                  log_records |-> st.log_records,
                  stats       |-> IF st.entry_modified
                                  THEN [st.stats EXCEPT !.entries_modified = @ + 1]
                                  ELSE st.stats ]

RECURSIVE MergeLoop(_, _, _)
MergeLoop(acc, by_id, i) ==
    IF i > Len(acc.dataset) THEN acc
    ELSE MergeLoop(MergeEntry(acc, by_id, i), by_id, i + 1)

\* mutant: merge returns the records without id after the other records
merge_no_id_last(ds, by_id) ==
    LET r     == MergeLoop([dataset |-> ds, log_records |-> <<>>, stats |-> NewStats(ds)],
                           by_id, 1)
        has_id(e) == Truthy(Get(e, "id"))
        no_id(e)  == ~has_id(e)
    IN  [r EXCEPT !.dataset = SelectSeq(@, has_id) \o SelectSeq(@, no_id)]

\* merge(dataset, logs_by_id) -> (dataset, log_records, stats)
merge(ds, by_id) ==
    MergeLoop([dataset |-> ds, log_records |-> <<>>, stats |-> NewStats(ds)],
              by_id, 1)

\* load_dataset(path): the file is JSON text; only an array is accepted
JsonArray(entries) == [json |-> "array", data |-> entries]
JsonObject == [json |-> "object", data |-> <<>>]
InvalidJson == [json |-> "invalid", data |-> <<>>]

NoError == [type |-> "none", lineno |-> 0]
ValueError(lineno) == [type |-> "ValueError", lineno |-> lineno]
JSONDecodeError == [type |-> "JSONDecodeError", lineno |-> 0]

load_dataset(file) ==
    IF file.json = "invalid" THEN [raised |-> JSONDecodeError, data |-> <<>>]
    ELSE IF file.json # "array" THEN [raised |-> ValueError(0), data |-> <<>>]
    ELSE [raised |-> NoError, data |-> file.data]

\* A line of the annotation source: blank (empty after strip), text that
\* json.loads rejects, or a JSON object.
BlankLine == [kind |-> "blank", rec |-> [key \in {} |-> None]]
InvalidLine == [kind |-> "invalid", rec |-> [key \in {} |-> None]]
ObjectLine(rec) == [kind |-> "object", rec |-> rec]

\* datetime.fromisoformat on the text of a timestamp: a date, or a date,
\* "T" and a time of day.  <<>> stands for None (the except branch), a
\* datetime is <<day, time of day>>.
DateOf(tok) ==
    CASE tok = "2024-01-01" -> <<1>>
      [] tok = "2024-01-02" -> <<2>>
      [] OTHER              -> <<>>

TimeOf(tok) ==
    CASE tok = "00:00:00" -> <<0>>
      [] tok = "12:00:00" -> <<1>>
      [] OTHER            -> <<>>

fromisoformat(text) ==
    IF Len(text) = 1 /\ DateOf(text[1]) # <<>>
    THEN DateOf(text[1]) \o <<0>>
    ELSE IF /\ Len(text) = 3 /\ text[2] = "T"
            /\ DateOf(text[1]) # <<>> /\ TimeOf(text[3]) # <<>>
    THEN DateOf(text[1]) \o TimeOf(text[3])
    ELSE <<>>

\* ts = datetime.fromisoformat(ts_str) if ts_str else None, None on exception
ParseTimestamp(ts_str) ==
    IF ~Truthy(ts_str) THEN <<>>
    ELSE IF ts_str.k # "str" THEN <<>>
    ELSE fromisoformat(ts_str.v)

\* ts > prev_ts on two datetimes
Later(ts, prev_ts) ==
    \/ ts[1] > prev_ts[1]
    \/ ts[1] = prev_ts[1] /\ ts[2] > prev_ts[2]

\* mutant: the later line always replaces the indexed record
LoadLine_last_wins(st, line, lineno) ==
    IF st.raised # NoError THEN st
    ELSE IF line.kind = "blank" THEN st
    ELSE IF line.kind = "invalid" THEN [st EXCEPT !.raised = ValueError(lineno)]
    ELSE
        LET rec == line.rec
        IN  IF "id" \notin DOMAIN rec THEN st
            ELSE [st EXCEPT !.best_by_id = SetItem(@, rec["id"], rec)]

\* mutant: a line that fails to parse is skipped
LoadLine_skip_invalid(st, line, lineno) ==
    IF st.raised # NoError THEN st
    ELSE IF line.kind # "object" THEN st
    ELSE
        LET rec == line.rec
        IN  IF "id" \notin DOMAIN rec THEN st
            ELSE
                LET ts == ParseTimestamp(Get(rec, "timestamp"))
                IN  IF rec["id"] \notin DOMAIN st.best_by_id
                    THEN [st EXCEPT !.best_by_id = SetItem(@, rec["id"], rec)]
                    ELSE
                        LET prev    == st.best_by_id[rec["id"]]
                            prev_ts == ParseTimestamp(Get(prev, "timestamp"))
                        IN  IF ts # <<>> /\ (prev_ts = <<>> \/ Later(ts, prev_ts))
                            THEN [st EXCEPT !.best_by_id = SetItem(@, rec["id"], rec)]
                            ELSE IF ts = <<>> /\ prev_ts = <<>>
                            THEN [st EXCEPT !.best_by_id = SetItem(@, rec["id"], rec)]
                            ELSE st

\* mutant: a record whose timestamp equals the indexed one replaces it
LoadLine_tie_replaces(st, line, lineno) ==
    IF st.raised # NoError THEN st
    ELSE IF line.kind = "blank" THEN st
    ELSE IF line.kind = "invalid" THEN [st EXCEPT !.raised = ValueError(lineno)]
    ELSE
        LET rec == line.rec
        IN  IF "id" \notin DOMAIN rec THEN st
            ELSE
                LET ts == ParseTimestamp(Get(rec, "timestamp"))
                IN  IF rec["id"] \notin DOMAIN st.best_by_id
                    THEN [st EXCEPT !.best_by_id = SetItem(@, rec["id"], rec)]
                    ELSE
                        LET prev    == st.best_by_id[rec["id"]]
                            prev_ts == ParseTimestamp(Get(prev, "timestamp"))
                        IN  IF ts # <<>> /\ (prev_ts = <<>> \/ ~Later(prev_ts, ts))
                            THEN [st EXCEPT !.best_by_id = SetItem(@, rec["id"], rec)]
                            ELSE IF ts = <<>> /\ prev_ts = <<>>
                            THEN [st EXCEPT !.best_by_id = SetItem(@, rec["id"], rec)]
                            ELSE st

\* One pass of the `for lineno, line in enumerate(f, start=1)` body.  st
\* carries best_by_id and the exception raised so far, which ends the loop.
LoadLine(st, line, lineno) ==
    IF st.raised # NoError THEN st
    ELSE IF line.kind = "blank" THEN st
    ELSE IF line.kind = "invalid" THEN [st EXCEPT !.raised = ValueError(lineno)]
    ELSE
        LET rec == line.rec
        IN  IF "id" \notin DOMAIN rec THEN st
            ELSE
                LET ts == ParseTimestamp(Get(rec, "timestamp"))
                IN  IF rec["id"] \notin DOMAIN st.best_by_id
                    THEN [st EXCEPT !.best_by_id = SetItem(@, rec["id"], rec)]
                    ELSE
                        LET prev    == st.best_by_id[rec["id"]]
                            prev_ts == ParseTimestamp(Get(prev, "timestamp"))
                        IN  IF ts # <<>> /\ (prev_ts = <<>> \/ Later(ts, prev_ts))
                            THEN [st EXCEPT !.best_by_id = SetItem(@, rec["id"], rec)]
                            ELSE IF ts = <<>> /\ prev_ts = <<>>
                            THEN [st EXCEPT !.best_by_id = SetItem(@, rec["id"], rec)]
                            ELSE st

RECURSIVE LoadLoop(_, _, _)
LoadLoop(st, lines, lineno) ==
    IF lineno > Len(lines) THEN st
    ELSE LoadLoop(LoadLine(st, lines[lineno], lineno), lines, lineno + 1)

\* load_logs(path) -> best_by_id, or the exception it raised
load_logs(lines) ==
    LoadLoop([best_by_id |-> [id \in {} |-> None], raised |-> NoError], lines, 1)

\* write_json(path, data), write_log_jsonl(path, records): the file is
\* replaced by the serialized data
NoFile == [written |-> FALSE, data |-> <<>>]
Written(data) == [written |-> TRUE, data |-> data]

\* ------------------------------------ _merge_validation_into_dataset
VALIDATION_FIELDS ==
    << "include", "reason", "main_form_ok", "main_form_suggestion", "en_ok",
       "en_suggestions", "de_ok", "de_suggestions", "notes", "confidence" >>

\* {field: validation[field] for field in VALIDATION_FIELDS if field in
\* validation}, from position n on
RECURSIVE ValidationPairs(_, _)
ValidationPairs(validation, n) ==
    IF n > Len(VALIDATION_FIELDS) THEN <<>>
    ELSE LET field == VALIDATION_FIELDS[n]
         IN  IF field \in DOMAIN validation
             THEN << <<field, validation[field]>> >> \o ValidationPairs(validation, n + 1)
             ELSE ValidationPairs(validation, n + 1)

\* list(entry["validation"].keys())
Keys(pairs) == [n \in 1..Len(pairs) |-> pairs[n][1]]

NewValidationStats(ds) ==
    [ entries_total               |-> Len(ds),
      validation_fields_added     |-> 0,
      validation_entries_with_log |-> 0,
      entries_unmatched           |-> 0 ]

\* SetItem for every pair of the list from position n on
RECURSIVE SetItems(_, _, _)
SetItems(entry, pairs, n) ==
    IF n > Len(pairs) THEN entry
    ELSE SetItems(SetItem(entry, pairs[n][1], pairs[n][2]), pairs, n + 1)

\* mutant: the validation fields are written onto the record itself
MergeValidationEntry_flat(acc, by_id, i) ==
    LET entry    == acc.dataset[i]
        entry_id == Get(entry, "id")
    IN  IF ~Truthy(entry_id) THEN acc
        ELSE IF HasLog(by_id, entry_id)
        THEN
            LET validation == by_id[entry_id]
                pairs      == ValidationPairs(validation, 1)
            IN  [ dataset     |-> [acc.dataset EXCEPT ![i] = SetItems(entry, pairs, 1)],
                  log_records |->
                      Append(acc.log_records,
                             [ id |-> entry_id,
                               action |-> "add_validation_object",
                               fields |-> Keys(pairs),
                               include_top_level |-> Get(validation, "include") ]),
                  stats       |->
                      [acc.stats EXCEPT
                          !.validation_entries_with_log = @ + 1,
                          !.validation_fields_added = @ + Len(pairs)] ]
        ELSE [acc EXCEPT !.stats.entries_unmatched = @ + 1]

\* One pass of the `for entry in dataset` body of the validation merge.
MergeValidationEntry(acc, by_id, i) ==
    LET entry    == acc.dataset[i]
        entry_id == Get(entry, "id")
    IN  IF ~Truthy(entry_id) THEN acc
        ELSE IF HasLog(by_id, entry_id)
        THEN
            LET validation == by_id[entry_id]
                pairs      == ValidationPairs(validation, 1)
                updated    ==
                    IF "include" \in DOMAIN validation
                    THEN SetItem(SetItem(entry, "include", validation["include"]),
                                 "validation", Dict(pairs))
                    ELSE SetItem(entry, "validation", Dict(pairs))
            IN  [ dataset     |-> [acc.dataset EXCEPT ![i] = updated],
                  log_records |->
                      Append(acc.log_records,
                             [ id |-> entry_id,
                               action |-> "add_validation_object",
                               fields |-> Keys(pairs),
                               include_top_level |-> Get(validation, "include") ]),
                  stats       |->
                      [acc.stats EXCEPT
                          !.validation_entries_with_log = @ + 1,
                          !.validation_fields_added = @ + Len(pairs)] ]
        ELSE [acc EXCEPT !.stats.entries_unmatched = @ + 1]

RECURSIVE MergeValidationLoop(_, _, _)
MergeValidationLoop(acc, by_id, i) ==
    IF i > Len(acc.dataset) THEN acc
    ELSE MergeValidationLoop(MergeValidationEntry(acc, by_id, i), by_id, i + 1)

\* merge(dataset, validation_by_id) of the validation script
merge_validation(ds, by_id) ==
    MergeValidationLoop(
        [dataset |-> ds, log_records |-> <<>>, stats |-> NewValidationStats(ds)],
        by_id, 1)

\* ------------------------------------------------------------ inputs
Unset == <<>>

IdA == Str(<<"a1">>)
IdB == Str(<<"a2">>)

\* the dict with no key
EmptyDict == [key \in {} |-> None]

\* values a dataset entry may hold in a whitelisted field
EntryValues ==
    { None, Str(<<>>), Str(<<" ">>), List(<<>>),
      Bool("False"), Num("0"), Str(<<"x">>) }

\* values an annotation may supply for a whitelisted field
SourceValues == { None, Str(<<>>), List(<<>>), Str(<<"y">>) }

\* the dicts over optional key `key` with a value of S, and the dict without it
Optional(d, key, S) == { d } \cup { SetItem(d, key, x) : x \in S }

\* dataset entries: with and without "id", with a whitelisted field in every
\* state of emptiness, with a field outside the whitelist
Entries ==
    LET ids == Optional(EmptyDict, "id", {IdA, IdB})
    IN  UNION { Optional(e, "category", EntryValues) : e \in ids }
        \cup { "id" :> Str(<<>>),
               "id" :> IdA @@ "timestamp" :> Str(<<"old">>) }

\* annotation records as load_logs indexes them: "id" is always present
Annotations(id) ==
    LET base == "id" :> id @@ "timestamp" :> Str(<<"2024-01-01">>)
    IN  UNION { Optional(a, "frequency_score", {Num("3")}) :
                  a \in Optional(base, "category", SourceValues) }

\* annotation mappings: IdA alone is annotated, in every way, or IdA and IdB
\* both are
Mappings ==
    { IdA :> a : a \in Annotations(IdA) }
    \cup { IdA :> ("id" :> IdA @@ "category" :> Str(<<"y">>)
                   @@ "frequency_score" :> Num("3"))
           @@ IdB :> ("id" :> IdB @@ "category" :> Str(<<"z">>)) }

RECURSIVE SeqsUpTo(_, _)
SeqsUpTo(S, n) ==
    IF n = 0 THEN { <<>> }
    ELSE LET shorter == SeqsUpTo(S, n - 1)
         IN  shorter \cup { Append(s, x) : s \in { t \in shorter : Len(t) = n - 1 }, x \in S }

\* texts of the "timestamp" field: empty, not ISO, two days, and the second
\* day written with its time of day
Timestamps ==
    { Str(<<>>), Str(<<"soon">>), Str(<<"2024-01-01">>), Str(<<"2024-01-02">>),
      Str(<<"2024-01-02", "T", "00:00:00">>) }

\* lines of the annotation source: blank, unparseable, a record without
\* id, records of IdA with every timestamp text and two payloads, records of
\* IdB with and without timestamp
Lines ==
    { BlankLine, InvalidLine, ObjectLine("category" :> Str(<<"w">>)) }
    \cup { ObjectLine(rec) :
             rec \in UNION { Optional("id" :> IdA @@ "category" :> c, "timestamp", Timestamps) :
                               c \in { Str(<<"y">>), Str(<<"z">>) } } }
    \cup { ObjectLine(rec) : rec \in Optional("id" :> IdB, "timestamp", { Str(<<"2024-01-01">>) }) }

\* the runs of main: few entries and lines, every kind of malformed input
MainEntries ==
    { "id" :> IdA, "id" :> IdA @@ "category" :> Str(<<"x">>), "category" :> None }

MainLines ==
    { BlankLine, InvalidLine,
      ObjectLine("id" :> IdA @@ "category" :> Str(<<"y">>)
                 @@ "timestamp" :> Str(<<"2024-01-01">>)),
      ObjectLine("id" :> IdA @@ "category" :> Str(<<"z">>)) }

\* entries and validation records given to the validation merge
ValidationEntries ==
    LET ids      == Optional(EmptyDict, "id", {IdA, IdB})
        included == UNION { Optional(e, "include", {None, Bool("True")}) : e \in ids }
    IN  UNION { Optional(e, "validation", { Dict(<< <<"notes", Str(<<"human">>)>> >>) }) :
                  e \in included }

ValidationRecords(id) ==
    LET base     == Optional("id" :> id, "timestamp", { Str(<<"2024-01-01">>) })
        included == UNION { Optional(r, "include", { Bool("False") }) : r \in base }
    IN  UNION { Optional(r, "reason", { Str(<<"rare">>) }) : r \in included }

\* ------------------------------------------------ main, step by step
\* dataset = load_dataset(DATASET_PATH)
LoadDataset ==
    /\ pc = "load_dataset"
    /\ LET r == load_dataset(dataset_file)
       IN  IF r.raised # NoError
           THEN /\ err' = r.raised
                /\ pc' = "error"
                /\ UNCHANGED dataset
           ELSE /\ dataset' = r.data
                /\ pc' = "load_logs"
                /\ UNCHANGED err
    /\ UNCHANGED <<dataset_file, logs_file, out_file, log_out_file, DRY_RUN,
                   logs_by_id, log_records, stats, notCategorization>>

\* logs_by_id = load_logs(LOGS_PATH)
LoadLogs ==
    /\ pc = "load_logs"
    /\ LET r == load_logs(logs_file)
       IN  IF r.raised # NoError
           THEN /\ err' = r.raised
                /\ pc' = "error"
                /\ UNCHANGED logs_by_id
           ELSE /\ logs_by_id' = r.best_by_id
                /\ pc' = "merge"
                /\ UNCHANGED err
    /\ UNCHANGED <<dataset_file, logs_file, out_file, log_out_file, DRY_RUN,
                   dataset, log_records, stats, notCategorization>>

\* merged, log_records, stats = merge(dataset, logs_by_id)
Merge ==
    /\ pc = "merge"
    /\ LET r == merge(dataset, logs_by_id)
       IN  /\ dataset' = r.dataset
           /\ log_records' = r.log_records
           /\ stats' = r.stats
    /\ pc' = "summary"
    /\ UNCHANGED <<dataset_file, logs_file, out_file, log_out_file, DRY_RUN,
                   logs_by_id, err, notCategorization>>

\* mutant: the run goes on to write whatever DRY_RUN says
Summary_ignores_dry_run ==
    /\ pc = "summary"
    /\ pc' = "write_json"
    /\ UNCHANGED <<dataset_file, logs_file, out_file, log_out_file, DRY_RUN,
                   dataset, logs_by_id, log_records, stats, err,
                   notCategorization>>

\* the summary is printed; with DRY_RUN the run returns here
Summary ==
    /\ pc = "summary"
    /\ pc' = IF DRY_RUN THEN "done" ELSE "write_json"
    /\ UNCHANGED <<dataset_file, logs_file, out_file, log_out_file, DRY_RUN,
                   dataset, logs_by_id, log_records, stats, err,
                   notCategorization>>

\* write_json(out_path, merged)
WriteJson ==
    /\ pc = "write_json"
    /\ out_file' = Written(dataset)
    /\ pc' = "write_log"
    /\ UNCHANGED <<dataset_file, logs_file, log_out_file, DRY_RUN,
                   dataset, logs_by_id, log_records, stats, err,
                   notCategorization>>

\* write_log_jsonl(log_out_path, log_records)
WriteLog ==
    /\ pc = "write_log"
    /\ log_out_file' = Written(log_records)
    /\ pc' = "done"
    /\ UNCHANGED <<dataset_file, logs_file, out_file, DRY_RUN,
                   dataset, logs_by_id, log_records, stats, err,
                   notCategorization>>

\* the same annotation mapping merged into the merged dataset once more
MergeAgain ==
    /\ pc = "summary"
    /\ LET r == merge(dataset, logs_by_id)
       IN  /\ dataset' = r.dataset
           /\ log_records' = r.log_records
           /\ stats' = r.stats
    /\ pc' = "summary2"
    /\ UNCHANGED <<dataset_file, logs_file, out_file, log_out_file, DRY_RUN,
                   logs_by_id, err, notCategorization>>

\* merged, log_records, stats = merge(dataset, validation_by_id)
MergeValidation ==
    /\ pc = "merge"
    /\ LET r == merge_validation(dataset, validation_by_id)
       IN  /\ dataset' = r.dataset
           /\ log_records' = r.log_records
           /\ stats' = r.stats
    /\ pc' = "summary"
    /\ UNCHANGED <<dataset_file, out_file, log_out_file, DRY_RUN,
                   validation_by_id, validation_logs_file, err, notValidation>>

\* ---------------------------------------------------- specifications
\* merge on every dataset and annotation mapping of the bounds
InitMerge ==
    /\ dataset_file \in { JsonArray(d) : d \in SeqsUpTo(Entries, MaxEntries) }
    /\ dataset = dataset_file.data
    /\ logs_by_id \in Mappings
    /\ logs_file = Unset
    /\ validation_by_id = Unset
    /\ out_file = NoFile
    /\ log_out_file = NoFile
    /\ DRY_RUN = FALSE
    /\ log_records = Unset
    /\ stats = Unset
    /\ err = NoError
    /\ validation_logs_file = Unset
    /\ backup_file = NoFile
    /\ md_log_file = NoFile
    /\ inplace = FALSE
    /\ arg = Unset
    /\ target = Unset
    /\ ret = Unset
    /\ csv_files = Unset
    /\ pc = "merge"

NextMerge == Merge

SpecMerge == InitMerge /\ [][NextMerge]_vars

NextRemerge == Merge \/ MergeAgain

SpecRemerge == InitMerge /\ [][NextRemerge]_vars

\* load_logs on every annotation source of the bounds
InitLoad ==
    /\ logs_file \in SeqsUpTo(Lines, MaxLines)
    /\ dataset_file = JsonArray(<<>>)
    /\ dataset = <<>>
    /\ logs_by_id = Unset
    /\ validation_by_id = Unset
    /\ out_file = NoFile
    /\ log_out_file = NoFile
    /\ DRY_RUN = FALSE
    /\ log_records = Unset
    /\ stats = Unset
    /\ err = NoError
    /\ validation_logs_file = Unset
    /\ backup_file = NoFile
    /\ md_log_file = NoFile
    /\ inplace = FALSE
    /\ arg = Unset
    /\ target = Unset
    /\ ret = Unset
    /\ csv_files = Unset
    /\ pc = "load_logs"

NextLoad == LoadLogs

SpecLoad == InitLoad /\ [][NextLoad]_vars

\* main of the categorization script on every input file of its bounds
InitMain ==
    /\ dataset_file \in { JsonObject, InvalidJson }
                        \cup { JsonArray(d) : d \in SeqsUpTo(MainEntries, MaxEntries) }
    /\ logs_file \in SeqsUpTo(MainLines, MaxLines)
    /\ DRY_RUN \in BOOLEAN
    /\ dataset = Unset
    /\ logs_by_id = Unset
    /\ validation_by_id = Unset
    /\ out_file = NoFile
    /\ log_out_file = NoFile
    /\ log_records = Unset
    /\ stats = Unset
    /\ err = NoError
    /\ validation_logs_file = Unset
    /\ backup_file = NoFile
    /\ md_log_file = NoFile
    /\ inplace = FALSE
    /\ arg = Unset
    /\ target = Unset
    /\ ret = Unset
    /\ csv_files = Unset
    /\ pc = "load_dataset"

NextMain ==
    \/ LoadDataset
    \/ LoadLogs
    \/ Merge
    \/ Summary
    \/ WriteJson
    \/ WriteLog

SpecMain == InitMain /\ [][NextMain]_vars

\* the validation merge on every dataset and validation mapping of the bounds
InitValidation ==
    /\ dataset_file \in { JsonArray(d) : d \in SeqsUpTo(ValidationEntries, MaxEntries) }
    /\ dataset = dataset_file.data
    /\ validation_by_id \in { IdA :> r : r \in ValidationRecords(IdA) }
    /\ logs_file = Unset
    /\ logs_by_id = Unset
    /\ out_file = NoFile
    /\ log_out_file = NoFile
    /\ DRY_RUN = FALSE
    /\ log_records = Unset
    /\ stats = Unset
    /\ err = NoError
    /\ validation_logs_file = Unset
    /\ backup_file = NoFile
    /\ md_log_file = NoFile
    /\ inplace = FALSE
    /\ arg = Unset
    /\ target = Unset
    /\ ret = Unset
    /\ csv_files = Unset
    /\ pc = "merge"

NextValidation == MergeValidation

SpecValidation == InitValidation /\ [][NextValidation]_vars

\* either merge on the same datasets: records of two ids, without id, with
\* an empty id, with and without fields the merges write
ShapeEntries ==
    { "id" :> IdA, "id" :> IdB, "id" :> IdB @@ "category" :> None,
      "category" :> Str(<<"x">>), "id" :> Str(<<>>),
      "id" :> IdA @@ "include" :> None }

InitShape ==
    /\ dataset_file \in { JsonArray(d) : d \in SeqsUpTo(ShapeEntries, MaxEntries) }
    /\ dataset = dataset_file.data
    /\ logs_by_id \in { m \in Mappings : IdB \in DOMAIN m \/ DOMAIN m[IdA] = {"id", "timestamp"} }
    /\ validation_by_id \in { IdA :> r : r \in ValidationRecords(IdA) }
    /\ logs_file = Unset
    /\ out_file = NoFile
    /\ log_out_file = NoFile
    /\ DRY_RUN = FALSE
    /\ log_records = Unset
    /\ stats = Unset
    /\ err = NoError
    /\ validation_logs_file = Unset
    /\ backup_file = NoFile
    /\ md_log_file = NoFile
    /\ inplace = FALSE
    /\ arg = Unset
    /\ target = Unset
    /\ ret = Unset
    /\ csv_files = Unset
    /\ pc = "merge"

NextShape == Merge \/ MergeValidation

SpecShape == InitShape /\ [][NextShape]_vars

\* -------------------------------------------------------- _add_future
\* variables the _add_future script does not have
notAddFuture ==
    <<logs_file, logs_by_id, validation_by_id, validation_logs_file,
      log_out_file, log_records, md_log_file, DRY_RUN, csv_files>>

EXPECTED_PERSONS == << "ana", "nta", "nti", "howa", "hia", "7na", "ntoma", "homa" >>

\* most persons of a conjugation table
MaxPersons == 2

\* a nested dict is the list of its <<key, value>> pairs in insertion order
DictHas(pairs, key) == \E n \in 1..Len(pairs) : pairs[n][1] = key

\* d.get(key)
DictGet(pairs, key) ==
    IF DictHas(pairs, key)
    THEN pairs[CHOOSE n \in 1..Len(pairs) : pairs[n][1] = key][2]
    ELSE None

\* d[key] = val: an existing key keeps its place, a new key goes last
DictSet(pairs, key, val) ==
    IF DictHas(pairs, key)
    THEN [n \in 1..Len(pairs) |-> IF pairs[n][1] = key THEN <<key, val>> ELSE pairs[n]]
    ELSE Append(pairs, <<key, val>>)

\* s.startswith("ka") on a string of characters
StartsWithKa(s) == Len(s) >= 2 /\ s[1] = "k" /\ s[2] = "a"

\* mutant: every leading "ka" is removed
RECURSIVE DropAllKa(_)
DropAllKa(s) == IF StartsWithKa(s) THEN DropAllKa(SubSeq(s, 3, Len(s))) ELSE s

strip_ka_all(form) == DropAllKa(Strip(form))

strip_ka(form) ==
    LET s == Strip(form)
    IN  IF StartsWithKa(s) THEN SubSeq(s, 3, Len(s)) ELSE s

\* the literal "ghadi " of the f-string
Ghadi == << "g", "h", "a", "d", "i", " " >>

\* the `for person, pres_form in present.items()` loop from position n on
RECURSIVE BuildFutureLoop(_, _, _)
BuildFutureLoop(future, present, n) ==
    IF n > Len(present) THEN future
    ELSE LET person    == present[n][1]
             pres_form == present[n][2]
         IN  IF pres_form.k # "str" \/ Strip(pres_form.v) = <<>>
             THEN BuildFutureLoop(future, present, n + 1)
             ELSE BuildFutureLoop(
                      DictSet(future, person, Str(Ghadi \o strip_ka(pres_form.v))),
                      present, n + 1)

build_future_from_present(present) == BuildFutureLoop(<<>>, present, 1)

\* isinstance(entry, dict): the tagged values are the ones with a kind
IsDictEntry(e) == "k" \notin DOMAIN e

\* mutant: a computed form replaces whatever the future table holds
FillPerson_overwrite(st, person, value) ==
    [future |-> DictSet(st.future, person, value), modified |-> TRUE]

\* the body of `for person, value in computed_future.items()`
FillPerson(st, person, value) ==
    LET old == DictGet(st.future, person)
    IN  IF ~DictHas(st.future, person) \/ old.k # "str" \/ Strip(old.v) = <<>>
        THEN [future |-> DictSet(st.future, person, value), modified |-> TRUE]
        ELSE st

RECURSIVE FillLoop(_, _, _)
FillLoop(st, computed, n) ==
    IF n > Len(computed) THEN st
    ELSE FillLoop(FillPerson(st, computed[n][1], computed[n][2]), computed, n + 1)

\* update_entry(entry) -> the entry as the call leaves it, and the return value
update_entry(e) ==
    IF ~IsDictEntry(e) THEN [entry |-> e, ret |-> FALSE]
    ELSE IF Get(e, "class") # Str(<<"verb">>) THEN [entry |-> e, ret |-> FALSE]
    ELSE
        LET conj    == IF Truthy(Get(e, "conjugations"))
                       THEN Get(e, "conjugations").v ELSE <<>>
            present == DictGet(conj, "present")
        IN  IF present.k # "dict" \/ present.v = <<>>
            THEN [entry |-> e, ret |-> FALSE]
            ELSE
                LET computed_future == build_future_from_present(present.v)
                    future   == DictGet(conj, "future")
                    conj1    == IF future.k # "dict"
                                THEN DictSet(conj, "future", Dict(<<>>))
                                ELSE conj
                    st       == FillLoop([future |-> DictGet(conj1, "future").v,
                                          modified |-> FALSE],
                                         computed_future, 1)
                    conj2    == DictSet(conj1, "future", Dict(st.future))
                IN  [entry |-> SetItem(e, "conjugations", Dict(conj2)),
                     ret   |-> st.modified]

\* conjugation tables over the first MaxPersons persons, from person n on:
\* each person is absent or holds a value of S
RECURSIVE TablesFrom(_, _)
TablesFrom(n, S) ==
    IF n > MaxPersons THEN { <<>> }
    ELSE LET rest == TablesFrom(n + 1, S)
         IN  rest \cup { << <<EXPECTED_PERSONS[n], x>> >> \o t : x \in S, t \in rest }

\* present forms: not a string, empty, blank, with "ka" once, twice, inside,
\* alone, with a lone "k", with surrounding blanks
PresentForms ==
    { None, Num("0"), Str(<<>>), Str(<<" ">>), Str(<<"k", "a", "n">>),
      Str(<<" ", "k", "a", "k", "a", "t", " ">>), Str(<<"n", "k", "a">>),
      Str(<<"k">>), Str(<<"k", "a">>) }

\* entries given to update_entry: present forms that yield a future form or
\* none, future tables with forms present, blank or of the wrong type, a
\* "future" that is no table, entries that are no verb or have no table
EntryPresentForms == { None, Str(<<" ">>), Str(<<"k", "a", "n">>), Str(<<" ", "k", "a", "t">>) }
EntryFutureForms == { None, Str(<<" ">>), Str(<<"x">>) }

Conjugations ==
    LET presents == { None } \cup { Dict(t) : t \in TablesFrom(1, EntryPresentForms) }
        futures  == { None, Str(<<"x">>) } \cup { Dict(t) : t \in TablesFrom(1, EntryFutureForms) }
    IN  { <<>> }
        \cup { << <<"present", p>> >> : p \in presents }
        \cup { << <<"present", p>>, <<"future", f>> >> : p \in presents, f \in futures }

VerbEntries ==
    LET table == << <<"present", Dict(<< <<"ana", Str(<<"k", "a", "n">>)>> >>)>> >>
    IN  { "class" :> Str(<<"verb">>) @@ "conjugations" :> Dict(c) : c \in Conjugations }
        \cup { "class" :> Str(<<"verb">>),
               "class" :> Str(<<"verb">>) @@ "conjugations" :> None,
               "class" :> Str(<<"noun">>) @@ "conjugations" :> Dict(table),
               "conjugations" :> Dict(table),
               Str(<<"verb">>) }

\* future = build_future_from_present(present)
BuildFuture ==
    /\ pc = "call"
    /\ ret' = Dict(build_future_from_present(arg.v))
    /\ pc' = "returned"
    /\ UNCHANGED <<dataset_file, out_file, backup_file, inplace, dataset, stats,
                   err, arg, target, notAddFuture>>

\* update_entry(entry): the entry is changed in place
UpdateEntry ==
    /\ pc = "call"
    /\ LET r == update_entry(target)
       IN  /\ target' = r.entry
           /\ ret' = r.ret
    /\ pc' = "returned"
    /\ UNCHANGED <<dataset_file, out_file, backup_file, inplace, dataset, stats,
                   err, arg, notAddFuture>>

\* update_entry called once more on the entry the first call left
UpdateEntryAgain ==
    /\ pc = "returned"
    /\ arg' = target
    /\ LET r == update_entry(target)
       IN  /\ target' = r.entry
           /\ ret' = r.ret
    /\ pc' = "returned2"
    /\ UNCHANGED <<dataset_file, out_file, backup_file, inplace, dataset, stats,
                   err, notAddFuture>>

\* build_future_from_present on every present table of the bounds
InitBuildFuture ==
    /\ arg \in { Dict(t) : t \in TablesFrom(1, PresentForms) }
    /\ target = Unset
    /\ ret = Unset
    /\ csv_files = Unset
    /\ dataset_file = Unset
    /\ dataset = Unset
    /\ logs_file = Unset
    /\ logs_by_id = Unset
    /\ validation_by_id = Unset
    /\ validation_logs_file = Unset
    /\ out_file = NoFile
    /\ log_out_file = NoFile
    /\ backup_file = NoFile
    /\ md_log_file = NoFile
    /\ inplace = FALSE
    /\ DRY_RUN = FALSE
    /\ log_records = Unset
    /\ stats = Unset
    /\ err = NoError
    /\ pc = "call"

NextBuildFuture == BuildFuture

SpecBuildFuture == InitBuildFuture /\ [][NextBuildFuture]_vars

\* update_entry, once and twice, on every entry of the bounds
InitUpdateEntry ==
    /\ target \in VerbEntries
    /\ arg = target
    /\ ret = Unset
    /\ csv_files = Unset
    /\ dataset_file = Unset
    /\ dataset = Unset
    /\ logs_file = Unset
    /\ logs_by_id = Unset
    /\ validation_by_id = Unset
    /\ validation_logs_file = Unset
    /\ out_file = NoFile
    /\ log_out_file = NoFile
    /\ backup_file = NoFile
    /\ md_log_file = NoFile
    /\ inplace = FALSE
    /\ DRY_RUN = FALSE
    /\ log_records = Unset
    /\ stats = Unset
    /\ err = NoError
    /\ pc = "call"

NextUpdateEntry == UpdateEntry \/ UpdateEntryAgain

SpecUpdateEntry == InitUpdateEntry /\ [][NextUpdateEntry]_vars

\* the JSON documents _add_future reads: besides an array, an object that
\* holds the entries under one of the container keys, and no file at all
JsonContainer(entries) == [json |-> "container", data |-> entries]
MissingJson == [json |-> "missing", data |-> <<>>]

SystemExit == [type |-> "SystemExit", lineno |-> 0]

\* iter_entries(data)
iter_entries(data) ==
    IF data.json \in { "array", "container" } THEN data.data ELSE <<>>

\* the `for entry in entries` loop of main from position i on
RECURSIVE UpdateLoop(_, _)
UpdateLoop(acc, i) ==
    IF i > Len(acc.entries) THEN acc
    ELSE LET r == update_entry(acc.entries[i])
         IN  UpdateLoop([ entries        |-> [acc.entries EXCEPT ![i] = r.entry],
                          modified_count |-> IF r.ret THEN acc.modified_count + 1
                                             ELSE acc.modified_count ],
                        i + 1)

\* in_path.exists() and data = load_dataset(in_path)
AddFutureLoad ==
    /\ pc = "af_load"
    /\ IF dataset_file.json = "missing"
       THEN err' = SystemExit /\ pc' = "error" /\ UNCHANGED dataset
       ELSE IF dataset_file.json = "invalid"
       THEN err' = JSONDecodeError /\ pc' = "error" /\ UNCHANGED dataset
       ELSE dataset' = dataset_file /\ pc' = "af_update" /\ UNCHANGED err
    /\ UNCHANGED <<dataset_file, out_file, backup_file, inplace, stats,
                   arg, target, ret, notAddFuture>>

\* entries = iter_entries(data) and the loop over update_entry; the entries
\* are updated inside data
AddFutureUpdate ==
    /\ pc = "af_update"
    /\ LET r == UpdateLoop([entries |-> iter_entries(dataset), modified_count |-> 0], 1)
       IN  /\ dataset' = IF dataset.json \in { "array", "container" }
                         THEN [dataset EXCEPT !.data = r.entries]
                         ELSE dataset
           /\ stats' = [modified_count |-> r.modified_count]
    /\ pc' = IF inplace THEN "af_backup" ELSE "af_save_output"
    /\ UNCHANGED <<dataset_file, out_file, backup_file, inplace, err,
                   arg, target, ret, notAddFuture>>

\* save_dataset(backup, data)
AddFutureBackup ==
    /\ pc = "af_backup"
    /\ backup_file' = Written(dataset)
    /\ pc' = "af_save_inplace"
    /\ UNCHANGED <<dataset_file, out_file, inplace, dataset, stats, err,
                   arg, target, ret, notAddFuture>>

\* save_dataset(in_path, data)
AddFutureSaveInPlace ==
    /\ pc = "af_save_inplace"
    /\ dataset_file' = dataset
    /\ pc' = "done"
    /\ UNCHANGED <<out_file, backup_file, inplace, dataset, stats, err,
                   arg, target, ret, notAddFuture>>

\* save_dataset(out_path, data)
AddFutureSaveOutput ==
    /\ pc = "af_save_output"
    /\ out_file' = Written(dataset)
    /\ pc' = "done"
    /\ UNCHANGED <<dataset_file, backup_file, inplace, dataset, stats, err,
                   arg, target, ret, notAddFuture>>

\* entries of the runs of main: a verb that gets a future form, one that has
\* it, one whose present yields none, and a noun
AddFutureEntries ==
    LET kan == <<"ana", Str(<<"k", "a", "n">>)>>
    IN  { "class" :> Str(<<"verb">>) @@ "conjugations" :> Dict(<< <<"present", Dict(<<kan>>)>> >>),
          "class" :> Str(<<"verb">>) @@ "conjugations" :>
              Dict(<< <<"present", Dict(<<kan>>)>>,
                      <<"future", Dict(<< <<"ana", Str(<<"x">>)>> >>)>> >>),
          "class" :> Str(<<"verb">>) @@ "conjugations" :>
              Dict(<< <<"present", Dict(<< <<"ana", Str(<<" ">>)>> >>)>> >>),
          "class" :> Str(<<"noun">>) }

AddFutureFiles ==
    { JsonArray(d) : d \in SeqsUpTo(AddFutureEntries, MaxEntries) }
    \cup { JsonContainer(d) : d \in SeqsUpTo(AddFutureEntries, 1) }
    \cup { JsonObject, InvalidJson, MissingJson }

InitAddFuture ==
    /\ dataset_file \in AddFutureFiles
    /\ inplace \in BOOLEAN
    /\ dataset = Unset
    /\ stats = Unset
    /\ arg = Unset
    /\ target = Unset
    /\ ret = Unset
    /\ csv_files = Unset
    /\ logs_file = Unset
    /\ logs_by_id = Unset
    /\ validation_by_id = Unset
    /\ validation_logs_file = Unset
    /\ out_file = NoFile
    /\ log_out_file = NoFile
    /\ backup_file = NoFile
    /\ md_log_file = NoFile
    /\ DRY_RUN = FALSE
    /\ log_records = Unset
    /\ err = NoError
    /\ pc = "af_load"

NextAddFuture ==
    \/ AddFutureLoad
    \/ AddFutureUpdate
    \/ AddFutureBackup
    \/ AddFutureSaveInPlace
    \/ AddFutureSaveOutput

SpecAddFuture == InitAddFuture /\ [][NextAddFuture]_vars

\* --------------------------------------------------- update_categories
\* variables the update_categories script does not have
notUpdateCategories ==
    <<logs_file, logs_by_id, validation_by_id, validation_logs_file,
      arg, target, ret>>

\* str.lower() on the words the inputs use
Lower(s) ==
    [n \in 1..Len(s) |->
        CASE s[n] = "Flus" -> "flus"
          [] s[n] = "Yed"  -> "yed"
          [] s[n] = "Kteb" -> "kteb"
          [] OTHER         -> s[n]]

norm_latin(s) == Lower(Strip(s))
norm_ar(s) == Strip(s)

\* the CSV files in the order of `mapping`
Categories == << "economy", "humanbody", "time" >>

FileNotFoundError == [type |-> "FileNotFoundError", lineno |-> 0]

\* a CSV file: absent, or its rows as dicts from header to cell text
NoCsv == [exists |-> FALSE, rows |-> <<>>]
Csv(rows) == [exists |-> TRUE, rows |-> rows]

\* get(row, key)
CsvGet(row, key) == IF key \in DOMAIN row THEN row[key] ELSE <<>>

\* the cells n1..n4 of a row that are not blank, normalised
RowLatin(row) ==
    { norm_latin(CsvGet(row, h)) :
        h \in { c \in { "n1", "n2", "n3", "n4" } : Strip(CsvGet(row, c)) # <<>> } }

RowAr(row) ==
    IF Strip(CsvGet(row, "darija_ar")) # <<>> THEN { norm_ar(CsvGet(row, "darija_ar")) } ELSE {}

\* load_csv_category_terms(base_dir) -> cat -> {"latin", "ar"}, or the
\* exception it raised
load_csv_category_terms(files) ==
    IF \E n \in 1..Len(Categories) : ~files[Categories[n]].exists
    THEN [raised |-> FileNotFoundError, out |-> <<>>]
    ELSE [ raised |-> NoError,
           out |-> [ cat \in { Categories[n] : n \in 1..Len(Categories) } |->
                       [ latin |-> UNION { RowLatin(files[cat].rows[r]) :
                                             r \in 1..Len(files[cat].rows) },
                         ar    |-> UNION { RowAr(files[cat].rows[r]) :
                                             r \in 1..Len(files[cat].rows) } ] ] ]

\* entry.get(key, "") and (entry.get(key) or [])
GetText(e, key) == IF key \in DOMAIN e THEN e[key].v ELSE <<>>
GetList(e, key) == IF key \in DOMAIN e /\ Truthy(e[key]) THEN e[key].v ELSE <<>>

\* the `for cat in priority` loop of find_match_category from position n on
RECURSIVE FindFrom(_, _, _)
FindFrom(e, cat_terms, n) ==
    IF n > Len(Categories) THEN << <<>>, <<>> >>
    ELSE LET terms       == cat_terms[Categories[n]]
             ar          == norm_ar(GetText(e, "darija_ar"))
             latin_forms == GetList(e, "darija_latin")
             ar_hit      == ar # <<>> /\ ar \in terms.ar
             latin_hit   == \E f \in 1..Len(latin_forms) :
                                norm_latin(latin_forms[f].v) \in terms.latin
         IN  IF ar_hit \/ latin_hit
             THEN << <<Categories[n]>>, IF ar_hit THEN <<"darija_ar">> ELSE <<"latin">> >>
             ELSE FindFrom(e, cat_terms, n + 1)

\* find_match_category(entry, cat_terms) -> (category, basis), both texts
find_match_category(e, cat_terms) ==
    IF Get(e, "class") # Str(<<"noun">>) THEN << <<>>, <<>> >>
    ELSE FindFrom(e, cat_terms, 1)

\* " | ".join(texts) from position n on
RECURSIVE Join(_, _)
Join(texts, n) ==
    IF n > Len(texts) THEN <<>>
    ELSE IF n = Len(texts) THEN texts[n].v
    ELSE texts[n].v \o <<" | ">> \o Join(texts, n + 1)

\* the body of `for entry in data`
UpdateCategory(acc, cat_terms, i) ==
    LET e == acc.data[i]
    IN  IF Get(e, "class") # Str(<<"noun">>) THEN acc
        ELSE
            LET counted == [acc EXCEPT !.total_nouns = @ + 1]
                found   == find_match_category(e, cat_terms)
                new_cat == found[1]
                old_cat == Get(e, "category")
            IN  IF new_cat = <<>> THEN counted
                ELSE IF old_cat = Str(new_cat) THEN counted
                ELSE [ data        |-> [acc.data EXCEPT ![i] = SetItem(e, "category", Str(new_cat))],
                       changes     |-> acc.changes + 1,
                       total_nouns |-> acc.total_nouns + 1,
                       log_rows    |->
                           Append(acc.log_rows,
                                  [ id           |-> IF "id" \in DOMAIN e THEN e["id"] ELSE Str(<<>>),
                                    darija_ar    |-> Str(GetText(e, "darija_ar")),
                                    darija_latin |-> Str(Join(GetList(e, "darija_latin"), 1)),
                                    en           |-> Str(Join(GetList(e, "en"), 1)),
                                    de           |-> Str(Join(GetList(e, "de"), 1)),
                                    old_category |-> IF old_cat = None THEN Str(<<>>) ELSE old_cat,
                                    new_category |-> Str(new_cat),
                                    match_basis  |-> Str(found[2]) ]) ]

RECURSIVE UpdateCategories(_, _, _)
UpdateCategories(acc, cat_terms, i) ==
    IF i > Len(acc.data) THEN acc
    ELSE UpdateCategories(UpdateCategory(acc, cat_terms, i), cat_terms, i + 1)

\* the order of Python's string comparison on the words the inputs use
WordRank(w) ==
    CASE w = " "         -> 1
      [] w = "ar:flus"   -> 2
      [] w = "ar:waqt"   -> 3
      [] w = "ar:yed"    -> 4
      [] w = "economy"   -> 5
      [] w = "humanbody" -> 6
      [] w = "time"      -> 7
      [] OTHER           -> 8

TextRank(text) == IF text = <<>> THEN 0 ELSE WordRank(text[1])

\* key=lambda r: (r["new_category"], r["darija_ar"]), compared
RowLeq(a, b) ==
    \/ TextRank(a.new_category.v) < TextRank(b.new_category.v)
    \/ /\ TextRank(a.new_category.v) = TextRank(b.new_category.v)
       /\ TextRank(a.darija_ar.v) <= TextRank(b.darija_ar.v)

\* sorted(rows, key=...): stable, built by inserting the rows in order
RECURSIVE sorted(_, _)
sorted(rows, n) ==
    IF n = 0 THEN <<>>
    ELSE LET before == sorted(rows, n - 1)
             row    == rows[n]
             keep   == Cardinality({ m \in 1..Len(before) : RowLeq(before[m], row) })
         IN  SubSeq(before, 1, keep) \o <<row>> \o SubSeq(before, keep + 1, Len(before))

\* cat_terms = load_csv_category_terms(base_dir); data = json.load(f), which
\* must be a list
UpdateCategoriesLoad ==
    /\ pc = "uc_load"
    /\ IF load_csv_category_terms(csv_files).raised # NoError
       THEN err' = FileNotFoundError /\ pc' = "error" /\ UNCHANGED dataset
       ELSE IF dataset_file.json = "missing"
       THEN err' = FileNotFoundError /\ pc' = "error" /\ UNCHANGED dataset
       ELSE IF dataset_file.json = "invalid"
       THEN err' = JSONDecodeError /\ pc' = "error" /\ UNCHANGED dataset
       ELSE IF dataset_file.json # "array"
       THEN err' = SystemExit /\ pc' = "error" /\ UNCHANGED dataset
       ELSE dataset' = dataset_file.data /\ pc' = "uc_update" /\ UNCHANGED err
    /\ UNCHANGED <<dataset_file, out_file, log_out_file, md_log_file, backup_file,
                   DRY_RUN, inplace, csv_files, log_records, stats,
                   notUpdateCategories>>

\* the loop over data: categories are set in data, changes are logged
UpdateCategoriesUpdate ==
    /\ pc = "uc_update"
    /\ LET r == UpdateCategories(
                    [data |-> dataset, changes |-> 0, total_nouns |-> 0, log_rows |-> <<>>],
                    load_csv_category_terms(csv_files).out, 1)
       IN  /\ dataset' = r.data
           /\ log_records' = r.log_rows
           /\ stats' = [changes |-> r.changes, total_nouns |-> r.total_nouns]
    /\ pc' = "uc_write_logs"
    /\ UNCHANGED <<dataset_file, out_file, log_out_file, md_log_file, backup_file,
                   DRY_RUN, inplace, csv_files, err, notUpdateCategories>>

\* write_csv_log and write_markdown_simple; then the branch on --dry-run and
\* on --out being the dataset itself
UpdateCategoriesWriteLogs ==
    /\ pc = "uc_write_logs"
    /\ log_out_file' = Written(log_records)
    /\ md_log_file' = Written([ totals |-> stats,
                                rows   |-> sorted(log_records, Len(log_records)) ])
    /\ pc' = IF DRY_RUN THEN "done"
             ELSE IF inplace THEN "uc_backup" ELSE "uc_save_output"
    /\ UNCHANGED <<dataset_file, out_file, backup_file, DRY_RUN, inplace,
                   csv_files, dataset, log_records, stats, err, notUpdateCategories>>

\* backup.write_text(json.dumps(data, ...))
UpdateCategoriesBackup ==
    /\ pc = "uc_backup"
    /\ backup_file' = Written(dataset)
    /\ pc' = "uc_save_inplace"
    /\ UNCHANGED <<dataset_file, out_file, log_out_file, md_log_file, DRY_RUN,
                   inplace, csv_files, dataset, log_records, stats, err,
                   notUpdateCategories>>

\* dataset_path.write_text(json.dumps(data, ...))
UpdateCategoriesSaveInPlace ==
    /\ pc = "uc_save_inplace"
    /\ dataset_file' = JsonArray(dataset)
    /\ pc' = "done"
    /\ UNCHANGED <<out_file, log_out_file, md_log_file, backup_file, DRY_RUN,
                   inplace, csv_files, dataset, log_records, stats, err,
                   notUpdateCategories>>

\* out_path.write_text(json.dumps(data, ...))
UpdateCategoriesSaveOutput ==
    /\ pc = "uc_save_output"
    /\ out_file' = Written(dataset)
    /\ pc' = "done"
    /\ UNCHANGED <<dataset_file, log_out_file, md_log_file, backup_file, DRY_RUN,
                   inplace, csv_files, dataset, log_records, stats, err,
                   notUpdateCategories>>

\* the three CSV files: economy and time share a latin term, so the priority
\* decides; a cell with blanks and capitals; an empty cell
CsvFiles ==
    [ economy   |-> Csv(<< "n1" :> <<" ", "Flus">> @@ "n2" :> <<>> @@ "darija_ar" :> <<"ar:flus">> >>),
      humanbody |-> Csv(<< "n1" :> <<"yed">> @@ "darija_ar" :> <<" ">> >>),
      time      |-> Csv(<< "n1" :> <<"flus">> @@ "darija_ar" :> <<"ar:waqt">> >>) ]

\* entries: nouns matched by darija_ar or by a latin form, with and without
\* an old category, already in the category, matched by nothing, and a verb
CategoryEntries ==
    { "class" :> Str(<<"noun">>) @@ "darija_ar" :> Str(<<"ar:waqt">>) @@ "category" :> Str(<<"x">>),
      "class" :> Str(<<"noun">>) @@ "id" :> IdA @@ "darija_latin" :> List(<<Str(<<"Yed", " ">>), Str(<<"ydd">>)>>),
      "class" :> Str(<<"noun">>) @@ "darija_ar" :> Str(<<"ar:flus">>) @@ "category" :> Str(<<"economy">>),
      "class" :> Str(<<"noun">>) @@ "darija_latin" :> List(<<Str(<<"flus">>)>>) @@ "category" :> None,
      "class" :> Str(<<"noun">>) @@ "darija_ar" :> Str(<<"ar:dar">>),
      "class" :> Str(<<"verb">>) @@ "darija_ar" :> Str(<<"ar:flus">>) }

InitUpdateCategories ==
    /\ csv_files \in { CsvFiles, [CsvFiles EXCEPT !.time = NoCsv] }
    /\ dataset_file \in { JsonArray(d) : d \in SeqsUpTo(CategoryEntries, MaxEntries) }
                        \cup { JsonObject, InvalidJson, MissingJson }
    /\ DRY_RUN \in BOOLEAN
    /\ inplace \in BOOLEAN
    /\ dataset = Unset
    /\ stats = Unset
    /\ log_records = Unset
    /\ arg = Unset
    /\ target = Unset
    /\ ret = Unset
    /\ logs_file = Unset
    /\ logs_by_id = Unset
    /\ validation_by_id = Unset
    /\ validation_logs_file = Unset
    /\ out_file = NoFile
    /\ log_out_file = NoFile
    /\ backup_file = NoFile
    /\ md_log_file = NoFile
    /\ err = NoError
    /\ pc = "uc_load"

NextUpdateCategories ==
    \/ UpdateCategoriesLoad
    \/ UpdateCategoriesUpdate
    \/ UpdateCategoriesWriteLogs
    \/ UpdateCategoriesBackup
    \/ UpdateCategoriesSaveInPlace
    \/ UpdateCategoriesSaveOutput

\* the runs of both scripts that can write the dataset file itself
InitInPlace == InitAddFuture \/ InitUpdateCategories

NextInPlace == NextAddFuture \/ NextUpdateCategories

SpecInPlace == InitInPlace /\ [][NextInPlace]_vars

\* ------------------------------ main of _merge_validation_into_dataset
\* variables the validation script does not have, and the ones the merge
\* scripts share with no other
notValidationMain == <<logs_file, logs_by_id, notMerge>>

\* one line of load_validation_logs: the last record of an id wins
LoadValidationLine(st, line, lineno) ==
    IF st.raised # NoError THEN st
    ELSE IF line.kind = "blank" THEN st
    ELSE IF line.kind = "invalid" THEN [st EXCEPT !.raised = ValueError(lineno)]
    ELSE IF "id" \notin DOMAIN line.rec THEN st
    ELSE [st EXCEPT !.by_id = SetItem(@, line.rec["id"], line.rec)]

RECURSIVE LoadValidationLoop(_, _, _)
LoadValidationLoop(st, lines, lineno) ==
    IF lineno > Len(lines) THEN st
    ELSE LoadValidationLoop(LoadValidationLine(st, lines[lineno], lineno), lines, lineno + 1)

\* load_validation_logs(path) -> by_id, or the exception it raised
load_validation_logs(lines) ==
    LoadValidationLoop([by_id |-> [id \in {} |-> None], raised |-> NoError], lines, 1)

\* reorder(entry) of write_json on a nested value: in every dict "include"
\* and "validation" go last, in this order
RECURSIVE reorder(_)
reorder(x) ==
    IF x.k = "dict"
    THEN LET other(p)      == p[1] \notin { "include", "validation" }
             include(p)    == p[1] = "include"
             validation(p) == p[1] = "validation"
             moved         == SelectSeq(x.v, other) \o SelectSeq(x.v, include)
                              \o SelectSeq(x.v, validation)
         IN  Dict([n \in 1..Len(moved) |-> <<moved[n][1], reorder(moved[n][2])>>])
    ELSE IF x.k = "list"
    THEN List([n \in 1..Len(x.v) |-> reorder(x.v[n])])
    ELSE x

\* reorder(data) on the dataset: the order of an entry's own keys is not
\* part of its value here, its nested values are reordered
ReorderDataset(ds) ==
    [i \in 1..Len(ds) |-> [key \in DOMAIN ds[i] |-> reorder(ds[i][key])]]

\* dataset = load_dataset(DATASET_PATH)
ValidationLoadDataset ==
    /\ pc = "v_load_dataset"
    /\ LET r == load_dataset(dataset_file)
       IN  IF r.raised # NoError
           THEN /\ err' = r.raised
                /\ pc' = "error"
                /\ UNCHANGED dataset
           ELSE /\ dataset' = r.data
                /\ pc' = "v_load_logs"
                /\ UNCHANGED err
    /\ UNCHANGED <<dataset_file, validation_logs_file, out_file, log_out_file,
                   DRY_RUN, validation_by_id, log_records, stats, notValidationMain>>

\* validation_by_id = load_validation_logs(VALIDATION_LOGS_PATH)
LoadValidationLogs ==
    /\ pc = "v_load_logs"
    /\ LET r == load_validation_logs(validation_logs_file)
       IN  IF r.raised # NoError
           THEN /\ err' = r.raised
                /\ pc' = "error"
                /\ UNCHANGED validation_by_id
           ELSE /\ validation_by_id' = r.by_id
                /\ pc' = "v_merge"
                /\ UNCHANGED err
    /\ UNCHANGED <<dataset_file, validation_logs_file, out_file, log_out_file,
                   DRY_RUN, dataset, log_records, stats, notValidationMain>>

\* merged, log_records, stats = merge(dataset, validation_by_id), in main
ValidationMerge ==
    /\ pc = "v_merge"
    /\ LET r == merge_validation(dataset, validation_by_id)
       IN  /\ dataset' = r.dataset
           /\ log_records' = r.log_records
           /\ stats' = r.stats
    /\ pc' = "v_summary"
    /\ UNCHANGED <<dataset_file, validation_logs_file, out_file, log_out_file,
                   DRY_RUN, validation_by_id, err, notValidationMain>>

\* the summary is printed; with DRY_RUN the run returns here
ValidationSummary ==
    /\ pc = "v_summary"
    /\ pc' = IF DRY_RUN THEN "done" ELSE "v_write_json"
    /\ UNCHANGED <<dataset_file, validation_logs_file, out_file, log_out_file,
                   DRY_RUN, dataset, validation_by_id, log_records, stats, err,
                   notValidationMain>>

\* write_json(out_path, merged)
ValidationWriteJson ==
    /\ pc = "v_write_json"
    /\ out_file' = Written(ReorderDataset(dataset))
    /\ pc' = "v_write_log"
    /\ UNCHANGED <<dataset_file, validation_logs_file, log_out_file, DRY_RUN,
                   dataset, validation_by_id, log_records, stats, err,
                   notValidationMain>>

\* write_log_jsonl(log_out_path, log_records)
ValidationWriteLog ==
    /\ pc = "v_write_log"
    /\ log_out_file' = Written(log_records)
    /\ pc' = "done"
    /\ UNCHANGED <<dataset_file, validation_logs_file, out_file, DRY_RUN,
                   dataset, validation_by_id, log_records, stats, err,
                   notValidationMain>>

\* the runs of the validation main: few entries and lines
ValidationMainEntries ==
    { "id" :> IdA, "id" :> IdA @@ "include" :> Bool("True") }

ValidationMainLines ==
    { InvalidLine,
      ObjectLine("id" :> IdA @@ "include" :> Bool("False") @@ "reason" :> Str(<<"rare">>)),
      ObjectLine("id" :> IdA @@ "notes" :> Str(<<"ok">>)) }

InitValidationMain ==
    /\ dataset_file \in { JsonObject, InvalidJson }
                        \cup { JsonArray(d) : d \in SeqsUpTo(ValidationMainEntries, MaxEntries) }
    /\ validation_logs_file \in SeqsUpTo(ValidationMainLines, MaxLines)
    /\ DRY_RUN \in BOOLEAN
    /\ dataset = Unset
    /\ logs_file = Unset
    /\ logs_by_id = Unset
    /\ validation_by_id = Unset
    /\ out_file = NoFile
    /\ log_out_file = NoFile
    /\ log_records = Unset
    /\ stats = Unset
    /\ err = NoError
    /\ backup_file = NoFile
    /\ md_log_file = NoFile
    /\ inplace = FALSE
    /\ arg = Unset
    /\ target = Unset
    /\ ret = Unset
    /\ csv_files = Unset
    /\ pc = "v_load_dataset"

NextValidationMain ==
    \/ ValidationLoadDataset
    \/ LoadValidationLogs
    \/ ValidationMerge
    \/ ValidationSummary
    \/ ValidationWriteJson
    \/ ValidationWriteLog

\* the runs of the three scripts that have a dry-run switch
InitDryRun == InitMain \/ InitValidationMain \/ InitUpdateCategories

NextDryRun == NextMain \/ NextValidationMain \/ NextUpdateCategories

SpecDryRun == InitDryRun /\ [][NextDryRun]_vars

\* ---------------------------------------------------------- _add_forms
\* most add_form calls made on one entry
MaxCalls == 3

\* x or ""
OrEmpty(x) == IF Truthy(x) THEN x.v ELSE <<>>

\* form_key(f)
form_key(f) ==
    << OrEmpty(DictGet(f.v, "latin")), OrEmpty(DictGet(f.v, "gender")),
       OrEmpty(DictGet(f.v, "number")) >>

\* the form add_form appends
NewForm(latin, gender, number, isLemma) ==
    Dict(<< <<"latin", latin>> >>
         \o (IF Truthy(gender) THEN << <<"gender", gender>> >> ELSE <<>>)
         \o (IF Truthy(number) THEN << <<"number", number>> >> ELSE <<>>)
         \o << <<"isLemma", Bool(IF isLemma THEN "True" ELSE "False")>> >>)

\* mutant: the key of the new form is compared by latin, gender and number
\* as given, without `or ""`
add_form_raw_key(e, latin, gender, number, isLemma) ==
    IF ~Truthy(latin) THEN e
    ELSE
        LET e1    == IF "forms" \in DOMAIN e THEN e ELSE SetItem(e, "forms", List(<<>>))
            forms == e1["forms"].v
            k     == <<latin.v, gender, number>>
            have  == { form_key(forms[i]) : i \in 1..Len(forms) }
        IN  IF k \notin have
            THEN SetItem(e1, "forms",
                         List(Append(forms, NewForm(latin, gender, number, isLemma))))
            ELSE e1

\* add_form(entry, latin, gender, number, isLemma): the entry as the call
\* leaves it
add_form(e, latin, gender, number, isLemma) ==
    IF ~Truthy(latin) THEN e
    ELSE
        LET e1    == IF "forms" \in DOMAIN e THEN e ELSE SetItem(e, "forms", List(<<>>))
            forms == e1["forms"].v
            k     == <<latin.v, OrEmpty(gender), OrEmpty(number)>>
            have  == { form_key(forms[i]) : i \in 1..Len(forms) }
        IN  IF k \notin have
            THEN SetItem(e1, "forms",
                         List(Append(forms, NewForm(latin, gender, number, isLemma))))
            ELSE IF isLemma
            THEN SetItem(e1, "forms",
                         List([i \in 1..Len(forms) |->
                                 IF form_key(forms[i]) = k
                                 THEN Dict(DictSet(forms[i].v, "isLemma", Bool("True")))
                                 ELSE forms[i]]))
            ELSE e1

\* arguments of add_form: latin empty or a word; gender and number absent,
\* empty or a word
FormLatins == { Str(<<>>), Str(<<"dar">>) }
FormGenders == { None, Str(<<>>), Str(<<"masculine">>) }
FormNumbers == { None, Str(<<"plural">>) }

\* entries add_form is called on: without forms, with an empty list, with
\* forms of distinct keys (one without isLemma, one with a null gender)
FormEntries ==
    LET dar == <<"latin", Str(<<"dar">>)>>
    IN  { "id" :> IdA,
          "id" :> IdA @@ "forms" :> List(<<>>),
          "id" :> IdA @@ "forms" :>
              List(<< Dict(<< dar, <<"gender", Str(<<"masculine">>)>>,
                              <<"isLemma", Bool("False")>> >>) >>),
          "id" :> IdA @@ "forms" :>
              List(<< Dict(<< dar, <<"gender", None>> >>),
                      Dict(<< dar, <<"number", Str(<<"plural">>)>>,
                              <<"isLemma", Bool("True")>> >>) >>) }

\* add_form(entry, latin, gender, number, isLemma); arg keeps the arguments
\* of the call, stats the number of calls made
AddForm ==
    /\ pc = "add_form"
    /\ stats.calls < MaxCalls
    /\ \E latin \in FormLatins, gender \in FormGenders, number \in FormNumbers,
          isLemma \in BOOLEAN :
          /\ arg' = [latin |-> latin, gender |-> gender, number |-> number,
                     isLemma |-> isLemma]
          /\ target' = add_form(target, latin, gender, number, isLemma)
    /\ stats' = [calls |-> stats.calls + 1]
    /\ UNCHANGED <<pc, dataset_file, out_file, backup_file, inplace, dataset,
                   err, ret, notAddFuture>>

InitAddForm ==
    /\ target \in FormEntries
    /\ arg = Unset
    /\ ret = Unset
    /\ stats = [calls |-> 0]
    /\ dataset_file = Unset
    /\ dataset = Unset
    /\ logs_file = Unset
    /\ logs_by_id = Unset
    /\ validation_by_id = Unset
    /\ validation_logs_file = Unset
    /\ csv_files = Unset
    /\ out_file = NoFile
    /\ log_out_file = NoFile
    /\ backup_file = NoFile
    /\ md_log_file = NoFile
    /\ inplace = FALSE
    /\ DRY_RUN = FALSE
    /\ log_records = Unset
    /\ err = NoError
    /\ pc = "add_form"

NextAddForm == AddForm

SpecAddForm == InitAddForm /\ [][NextAddForm]_vars

\* --------------------------------------------------------- _chatgpt_v02
TOPICS_ENUM ==
    << "basic_needs.social_interactions", "basic_needs.food_drink",
       "basic_needs.shopping_money", "basic_needs.numbers",
       "basic_needs.time_date", "basic_needs.colours", "basic_needs.weather",
       "basic_needs.nature",
       "people.family_relationships", "people.body_health",
       "people.clothes_fashion", "people.personal_qualities",
       "people.physical_appearance", "people.feelings_emotions",
       "daily_life.home_buildings", "daily_life.travel_transport",
       "daily_life.work_school", "daily_life.leisure_sport",
       "daily_life.animals", "daily_life.media_entertainment",
       "extra_advanced.politics_society", "extra_advanced.science_technology",
       "extra_advanced.environment", "extra_advanced.business_economy",
       "extra_advanced.culture_art", "extra_advanced.religion" >>

FREQ_ENUM == << "basic", "common", "rare" >>
FORMAL_ENUM == << "formal", "neutral", "informal" >>

\* longest topics list of an input
MaxTopics == 4

\* x in enum, for an enum of strings
InEnum(x, enum) == x.k = "str" /\ \E n \in 1..Len(enum) : x.v = <<enum[n]>>

\* t.startswith("extra_advanced.") on a topic of the enum
StartsWithExtraAdvanced(t) ==
    \E n \in 21..26 : t.v = <<TOPICS_ENUM[n]>>

\* [t for t in topics if t in TOPICS_ENUM] from position n on
RECURSIVE FilterTopics(_, _)
FilterTopics(topics, n) ==
    IF n > Len(topics) THEN <<>>
    ELSE IF InEnum(topics[n], TOPICS_ENUM)
    THEN <<topics[n]>> \o FilterTopics(topics, n + 1)
    ELSE FilterTopics(topics, n + 1)

\* [t for t in topics if t not in TOPICS_ENUM] from position n on
RECURSIVE RemovedTopics(_, _)
RemovedTopics(topics, n) ==
    IF n > Len(topics) THEN <<>>
    ELSE IF ~InEnum(topics[n], TOPICS_ENUM)
    THEN <<topics[n]>> \o RemovedTopics(topics, n + 1)
    ELSE RemovedTopics(topics, n + 1)

\* mutant: the allowed topics are not cut to three
validate_and_normalize_untruncated(result) ==
    LET r1 == IF InEnum(Get(result, "frequency_level"), FREQ_ENUM) THEN result
              ELSE SetItem(result, "frequency_level", Str(<<"common">>))
        r2 == IF InEnum(Get(r1, "formality_level"), FORMAL_ENUM) THEN r1
              ELSE SetItem(r1, "formality_level", Str(<<"neutral">>))
        given  == IF "topics" \in DOMAIN result THEN result["topics"] ELSE List(<<>>)
        topics == IF given.k = "list" THEN given.v ELSE <<>>
    IN  [ result   |-> SetItem(r2, "topics", List(FilterTopics(topics, 1))),
          warnings |-> <<>> ]

\* validate_and_normalize(result) -> (result, warnings); a warning is its
\* kind and the value it names
validate_and_normalize(result) ==
    LET freq == Get(result, "frequency_level")
        w1   == IF InEnum(freq, FREQ_ENUM) THEN <<>>
                ELSE << <<"frequency_level", freq>> >>
        r1   == IF InEnum(freq, FREQ_ENUM) THEN result
                ELSE SetItem(result, "frequency_level", Str(<<"common">>))
        form == Get(r1, "formality_level")
        w2   == IF InEnum(form, FORMAL_ENUM) THEN <<>>
                ELSE << <<"formality_level", form>> >>
        r2   == IF InEnum(form, FORMAL_ENUM) THEN r1
                ELSE SetItem(r1, "formality_level", Str(<<"neutral">>))
        given  == IF "topics" \in DOMAIN result THEN result["topics"] ELSE List(<<>>)
        w3     == IF given.k = "list" THEN <<>> ELSE << <<"topics", Str(<<"not an array">>)>> >>
        topics == IF given.k = "list" THEN given.v ELSE <<>>
        filtered == FilterTopics(topics, 1)
        removed  == RemovedTopics(topics, 1)
        w4     == IF removed # <<>> THEN << <<"removed", List(removed)>> >> ELSE <<>>
        w5     == IF Len(filtered) > 3
                  THEN << <<"truncated", List(SubSeq(filtered, 1, 3))>> >> ELSE <<>>
        kept   == IF Len(filtered) > 3 THEN SubSeq(filtered, 1, 3) ELSE filtered
        r3     == SetItem(r2, "topics", List(kept))
        w6     == IF /\ \E n \in 1..Len(kept) : StartsWithExtraAdvanced(kept[n])
                     /\ r3["frequency_level"] = Str(<<"basic">>)
                  THEN << <<"lint", Str(<<"basic + extra_advanced">>)>> >> ELSE <<>>
    IN  [ result |-> r3, warnings |-> w1 \o w2 \o w3 \o w4 \o w5 \o w6 ]

\* values of the two levels in a model response: absent, null, of the enum,
\* a string outside it, no string
LevelValues(enum) ==
    { None, Num("0"), Str(<<"Basic">>), Str(<<enum[1]>>), Str(<<enum[3]>>) }

\* topics of a model response: allowed ones, an unknown one, a non-string
TopicValues ==
    { Str(<<"basic_needs.numbers">>), Str(<<"extra_advanced.religion">>),
      Str(<<"numbers">>), None }

Responses ==
    LET freqs   == Optional(EmptyDict, "frequency_level", LevelValues(FREQ_ENUM))
        formals == UNION { Optional(r, "formality_level", { None, Str(<<"formal">>) }) :
                             r \in freqs }
    IN  UNION { Optional(r, "topics",
                         { None, Str(<<"basic_needs.numbers">>) }
                         \cup { List(t) : t \in SeqsUpTo(TopicValues, MaxTopics) }) :
                  r \in formals }

\* result, warnings = validate_and_normalize(result); the mapping is changed
\* in place
ValidateAndNormalize ==
    /\ pc = "call"
    /\ LET r == validate_and_normalize(target)
       IN  /\ target' = r.result
           /\ ret' = r
    /\ pc' = "returned"
    /\ UNCHANGED <<dataset_file, out_file, backup_file, inplace, dataset, stats,
                   err, arg, notAddFuture>>

InitValidate ==
    /\ target \in Responses
    /\ arg = target
    /\ ret = Unset
    /\ stats = Unset
    /\ dataset_file = Unset
    /\ dataset = Unset
    /\ logs_file = Unset
    /\ logs_by_id = Unset
    /\ validation_by_id = Unset
    /\ validation_logs_file = Unset
    /\ csv_files = Unset
    /\ out_file = NoFile
    /\ log_out_file = NoFile
    /\ backup_file = NoFile
    /\ md_log_file = NoFile
    /\ inplace = FALSE
    /\ DRY_RUN = FALSE
    /\ log_records = Unset
    /\ err = NoError
    /\ pc = "call"

NextValidate == ValidateAndNormalize

SpecValidate == InitValidate /\ [][NextValidate]_vars

\* -------------------------------------------------- _merge_conjugations
\* variables the _merge_conjugations script does not have
notMergeConjugations ==
    <<logs_file, logs_by_id, validation_by_id, validation_logs_file,
      log_out_file, backup_file, md_log_file, DRY_RUN, inplace,
      arg, target, ret>>

PRONOUNS == << "ana", "nta", "nti", "howa", "hia", "7na", "ntoma", "homa" >>

AttributeError == [type |-> "AttributeError", lineno |-> 0]

\* normalize(s): (s or "").strip().lower()
normalize(s) == IF Truthy(s) THEN Lower(Strip(s.v)) ELSE <<>>

\* a CSV file read by csv.DictReader: absent, or its header names and its
\* rows as dicts from header to cell text
NoCsvTable == [exists |-> FALSE, headers |-> {}, rows |-> <<>>]
CsvTable(headers, rows) == [exists |-> TRUE, headers |-> headers, rows |-> rows]

\* {p: (row.get(p) or "").strip() for p in PRONOUNS if p in headers and row.get(p)}
RECURSIVE RowForms(_, _, _)
RowForms(headers, row, n) ==
    IF n > Len(PRONOUNS) THEN <<>>
    ELSE LET p == PRONOUNS[n]
         IN  (IF p \in headers /\ CsvGet(row, p) # <<>>
              THEN << <<p, Str(Strip(CsvGet(row, p)))>> >>
              ELSE <<>>)
             \o RowForms(headers, row, n + 1)

\* the loop of read_present_by_root and read_past_by_howa over the rows: rows
\* whose key cell normalizes to "" are skipped, a later row replaces an
\* earlier one with the same key
RECURSIVE IndexRows(_, _, _, _)
IndexRows(out, table, key, n) ==
    IF n > Len(table.rows) THEN out
    ELSE LET row == table.rows[n]
             k   == normalize(Str(CsvGet(row, key)))
         IN  IF k = <<>>
             THEN IndexRows(out, table, key, n + 1)
             ELSE IndexRows(SetItem(out, k, RowForms(table.headers, row, 1)),
                            table, key, n + 1)

read_present_by_root(table) == IndexRows(<<>>, table, "root", 1)
read_past_by_howa(table) == IndexRows(<<>>, table, "howa", 1)

\* variants = entry.get("darija_latin") or []
Variants(entry) ==
    IF Truthy(Get(entry, "darija_latin")) THEN Get(entry, "darija_latin").v ELSE <<>>

\* v1 and v2: normalize(variants[n]) if len(variants) >= n else ""
Variant(entry, n) ==
    IF Len(Variants(entry)) >= n THEN normalize(Variants(entry)[n]) ELSE <<>>

\* the table of variant v in an index, {} when v is "" or not a key
ConjOf(index, v) == IF v # <<>> /\ v \in DOMAIN index THEN index[v] ELSE <<>>

\* mutant of lookup: the second variant is tried whenever the first one gave
\* no present table
lookup_second_without_present(entry, present_by_root, past_by_howa) ==
    LET v1 == Variant(entry, 1)
        v2 == Variant(entry, 2)
        p1 == ConjOf(present_by_root, v1)
        q1 == ConjOf(past_by_howa, v1)
        second == p1 = <<>> /\ v2 # <<>>
    IN  [conj_present |->
             IF second /\ v2 \in DOMAIN present_by_root THEN present_by_root[v2] ELSE p1,
         conj_past |->
             IF second /\ v2 \in DOMAIN past_by_howa THEN past_by_howa[v2] ELSE q1,
         matched_with_second |->
             second /\ (v2 \in DOMAIN present_by_root \/ v2 \in DOMAIN past_by_howa)]

\* steps 1 and 2 of the loop body: the first variant, then the second one
\* when both tables are still empty
lookup(entry, present_by_root, past_by_howa) ==
    LET v1 == Variant(entry, 1)
        v2 == Variant(entry, 2)
        p1 == ConjOf(present_by_root, v1)
        q1 == ConjOf(past_by_howa, v1)
        second == p1 = <<>> /\ q1 = <<>> /\ v2 # <<>>
    IN  [conj_present |->
             IF second /\ v2 \in DOMAIN present_by_root THEN present_by_root[v2] ELSE p1,
         conj_past |->
             IF second /\ v2 \in DOMAIN past_by_howa THEN past_by_howa[v2] ELSE q1,
         matched_with_second |->
             second /\ (v2 \in DOMAIN present_by_root \/ v2 \in DOMAIN past_by_howa)]

\* {"id": ..., "first": ..., "second": ...} of the report lists
VariantRef(entry) ==
    [id     |-> Get(entry, "id"),
     first  |-> IF Len(Variants(entry)) >= 1 THEN Variants(entry)[1] ELSE Str(<<>>),
     second |-> IF Len(Variants(entry)) > 1 THEN Variants(entry)[2] ELSE Str(<<>>)]

\* entry.get("conjugations", {}).get("future", {}), replaced by {} when falsy
KeptFuture(entry) ==
    LET old == IF "conjugations" \in DOMAIN entry
               THEN DictGet(entry["conjugations"].v, "future")
               ELSE None
    IN  IF Truthy(old) THEN old ELSE Dict(<<>>)

\* one pass of `for entry in entries` in main
MergeConjugationsEntry(acc, present_by_root, past_by_howa, n) ==
    LET entry == acc.entries[n]
        found == lookup(entry, present_by_root, past_by_howa)
        hit   == found.conj_present # <<>> \/ found.conj_past # <<>>
        ref   == VariantRef(entry)
    IN  IF acc.raised \/ Get(entry, "class") # Str(<<"verb">>)
        THEN acc
        ELSE IF "conjugations" \in DOMAIN entry /\ entry["conjugations"].k # "dict"
        THEN [acc EXCEPT !.raised = TRUE]
        ELSE [acc EXCEPT
                 !.entries[n] = SetItem(entry, "conjugations",
                     Dict(<< <<"present", Dict(found.conj_present)>>,
                             <<"past", Dict(found.conj_past)>>,
                             <<"future", KeptFuture(entry)>> >>)),
                 !.updated = IF hit THEN @ + 1 ELSE @,
                 !.used_second_variant =
                     IF hit /\ found.matched_with_second THEN Append(@, ref) ELSE @,
                 !.past_missing =
                     IF found.conj_present # <<>> /\ found.conj_past = <<>>
                     THEN Append(@, ref) ELSE @,
                 !.present_missing =
                     IF found.conj_past # <<>> /\ found.conj_present = <<>>
                     THEN Append(@, ref) ELSE @,
                 !.not_found = IF hit THEN @ ELSE Append(@, ref)]

RECURSIVE MergeConjugationsLoop(_, _, _, _)
MergeConjugationsLoop(acc, present_by_root, past_by_howa, n) ==
    IF n > Len(acc.entries) THEN acc
    ELSE MergeConjugationsLoop(
             MergeConjugationsEntry(acc, present_by_root, past_by_howa, n),
             present_by_root, past_by_howa, n + 1)

\* entries = load_json_array(DATA_JSON) and the two CSV readers
MergeConjugationsLoad ==
    /\ pc = "mc_load"
    /\ IF dataset_file.json = "missing"
       THEN err' = SystemExit /\ pc' = "error" /\ UNCHANGED dataset
       ELSE IF dataset_file.json = "invalid"
       THEN err' = JSONDecodeError /\ pc' = "error" /\ UNCHANGED dataset
       ELSE IF dataset_file.json # "array"
       THEN err' = ValueError(0) /\ pc' = "error" /\ UNCHANGED dataset
       ELSE IF ~csv_files.present.exists
       THEN err' = SystemExit /\ pc' = "error" /\ UNCHANGED dataset
       ELSE IF "root" \notin csv_files.present.headers
       THEN err' = ValueError(0) /\ pc' = "error" /\ UNCHANGED dataset
       ELSE IF ~csv_files.past.exists
       THEN err' = SystemExit /\ pc' = "error" /\ UNCHANGED dataset
       ELSE IF "howa" \notin csv_files.past.headers
       THEN err' = ValueError(0) /\ pc' = "error" /\ UNCHANGED dataset
       ELSE dataset' = dataset_file.data /\ pc' = "mc_merge" /\ UNCHANGED err
    /\ UNCHANGED <<dataset_file, out_file, csv_files, stats, log_records,
                   notMergeConjugations>>

\* the loop over the entries with its counters and report lists
MergeConjugationsMerge ==
    /\ pc = "mc_merge"
    /\ LET r == MergeConjugationsLoop(
                    [entries |-> dataset, raised |-> FALSE, updated |-> 0,
                     used_second_variant |-> <<>>, not_found |-> <<>>,
                     present_missing |-> <<>>, past_missing |-> <<>>],
                    read_present_by_root(csv_files.present),
                    read_past_by_howa(csv_files.past), 1)
       IN  IF r.raised
           THEN /\ err' = AttributeError
                /\ pc' = "error"
                /\ UNCHANGED <<dataset, stats, log_records>>
           ELSE /\ dataset' = r.entries
                /\ stats' = [updated |-> r.updated]
                /\ log_records' = [used_second_variant |-> r.used_second_variant,
                                   not_found |-> r.not_found,
                                   present_missing |-> r.present_missing,
                                   past_missing |-> r.past_missing]
                /\ pc' = "mc_write"
                /\ UNCHANGED err
    /\ UNCHANGED <<dataset_file, out_file, csv_files, notMergeConjugations>>

\* out_path.write_text(json.dumps(entries, ...))
MergeConjugationsWrite ==
    /\ pc = "mc_write"
    /\ out_file' = Written(dataset)
    /\ pc' = "done"
    /\ UNCHANGED <<dataset_file, dataset, csv_files, stats, log_records, err,
                   notMergeConjugations>>

\* the conjugation CSV files: a present row for kteb, one for bare whose
\* pronoun cells are all empty, one without root; past rows for kteb and mcha
PresentCsv ==
    CsvTable({ "root", "ana", "howa" },
        << [root |-> <<" ", "Kteb">>, ana |-> <<"kankteb">>, howa |-> <<"kaykteb", " ">>],
           [root |-> <<"bare">>, ana |-> <<>>, howa |-> <<>>],
           [root |-> <<" ">>, ana |-> <<"kan">>, howa |-> <<>>] >>)

PastCsv ==
    CsvTable({ "ana", "howa" },
        << [ana |-> <<"ktebt">>, howa |-> <<"Kteb">>],
           [ana |-> <<>>, howa |-> <<"mcha">>],
           [ana |-> <<"x">>, howa |-> <<>>] >>)

ConjugationCsvFiles ==
    { [present |-> PresentCsv, past |-> PastCsv],
      [present |-> NoCsvTable, past |-> PastCsv],
      [present |-> PresentCsv, past |-> NoCsvTable],
      [present |-> CsvTable({ "ana" }, <<>>), past |-> PastCsv],
      [present |-> PresentCsv, past |-> CsvTable({ "ana" }, <<>>)] }

VerbWith(id, variants) ==
    "id" :> Str(<<id>>) @@ "class" :> Str(<<"verb">>)
        @@ "darija_latin" :> List(variants)

ConjugationEntries ==
    { VerbWith("a", << Str(<<"Kteb", " ">>) >>),
      VerbWith("b", << Str(<<"zzz">>), Str(<<"kteb">>) >>),
      VerbWith("c", << Str(<<"bare">>), Str(<<"mcha">>) >>),
      VerbWith("d", << Str(<<"bare">>) >>),
      VerbWith("e", << Str(<<"mcha">>), Str(<<"kteb">>) >>),
      VerbWith("f", << Str(<<"zzz">>), Str(<<"yyy">>) >>),
      VerbWith("g", << Str(<<"kteb">>) >>) @@ "conjugations" :>
          Dict(<< <<"future", Dict(<< <<"ana", Str(<<"ghadi">>)>> >>)>>,
                  <<"extra", Str(<<"x">>)>> >>),
      VerbWith("h", << Str(<<"zzz">>) >>) @@ "conjugations" :>
          Dict(<< <<"future", Dict(<<>>)>> >>),
      VerbWith("i", << Str(<<"kteb">>) >>) @@ "conjugations" :> None,
      "id" :> Str(<<"j">>) @@ "class" :> Str(<<"verb">>),
      "id" :> Str(<<"k">>) @@ "class" :> Str(<<"noun">>)
          @@ "darija_latin" :> List(<< Str(<<"kteb">>) >>)
          @@ "conjugations" :> Dict(<< <<"present", None>> >>) }

ConjugationFiles ==
    { JsonArray(d) : d \in SeqsUpTo(ConjugationEntries, MaxEntries) }
    \cup { JsonObject, InvalidJson, MissingJson }

InitMergeConjugations ==
    /\ dataset_file \in ConjugationFiles
    /\ csv_files \in ConjugationCsvFiles
    /\ dataset = Unset
    /\ stats = Unset
    /\ log_records = Unset
    /\ arg = Unset
    /\ target = Unset
    /\ ret = Unset
    /\ logs_file = Unset
    /\ logs_by_id = Unset
    /\ validation_by_id = Unset
    /\ validation_logs_file = Unset
    /\ inplace = FALSE
    /\ out_file = NoFile
    /\ log_out_file = NoFile
    /\ backup_file = NoFile
    /\ md_log_file = NoFile
    /\ DRY_RUN = FALSE
    /\ err = NoError
    /\ pc = "mc_load"

NextMergeConjugations ==
    \/ MergeConjugationsLoad
    \/ MergeConjugationsMerge
    \/ MergeConjugationsWrite

SpecMergeConjugations == InitMergeConjugations /\ [][NextMergeConjugations]_vars

\* ------------------------------------ _chatgpt_categorize_and_frequency
MaxBatch == 2
MaxRetries == 3

\* what one call of client.chat.completions.create gives: an exception, a
\* message without content, or a text: the JSON of a value alone (plain) or
\* with prose around it (wrapped), prose without brackets, or brackets around
\* something that is not JSON
ApiRaises == [kind |-> "raises", value |-> None]
NoContent == [kind |-> "no_content", value |-> None]
Prose == [kind |-> "prose", value |-> None]
BrokenArray == [kind |-> "broken", value |-> None]
Plain(value) == [kind |-> "plain", value |-> value]
Wrapped(value) == [kind |-> "wrapped", value |-> value]

\* json.loads(response_text): the value, or JSONDecodeError
LoadsFails(response) == response.kind # "plain"

\* re.search(r'\[.*\]', response_text, re.DOTALL): the text from the first [
\* to the last ], parsed; of an object holding one array that is the array
HasBrackets(response) ==
    \/ response.kind = "broken"
    \/ /\ response.kind = "wrapped"
       /\ \/ response.value.k = "list"
          \/ /\ response.value.k = "dict"
             /\ \E n \in 1..Len(response.value.v) : response.value.v[n][2].k = "list"
Bracketed(response) ==
    IF response.value.k = "list" THEN response.value
    ELSE response.value.v[CHOOSE n \in 1..Len(response.value.v) :
                              response.value.v[n][2].k = "list"][2]

\* mutant of IsExpected: any list is taken
IsExpected_any_list(result, word_batch) == result.k = "list"

\* isinstance(result, list) and len(result) == len(word_batch)
IsExpected(result, word_batch) ==
    result.k = "list" /\ Len(result.v) = Len(word_batch)

\* the try body after the call: the list to return, or a failure for the
\* except clause
parse_response(response, word_batch) ==
    IF response.kind \in { "raises", "no_content" }
    THEN [ok |-> FALSE, result |-> None]
    ELSE IF ~LoadsFails(response)
    THEN [ok |-> IsExpected(response.value, word_batch), result |-> response.value]
    ELSE IF HasBrackets(response) /\ response.kind # "broken"
    THEN [ok |-> IsExpected(Bracketed(response), word_batch),
          result |-> Bracketed(response)]
    ELSE [ok |-> FALSE, result |-> None]

\* the fallback record of one word
fallback_result(word_data) ==
    Dict(<< <<"id", word_data["id"]>>,
            <<"category", Str(<<"other">>)>>,
            <<"category_confidence", Num("0.0")>>,
            <<"frequency_score", Num("50")>>,
            <<"is_daily_darija", Bool("False")>>,
            <<"is_standard_arabic", Bool("True")>>,
            <<"user_summary_de", Str(<<"Automatische Bewertung - bitte manuell überprüfen">>)>>,
            <<"user_summary_en", Str(<<"Automatic assessment - please check manually">>)>> >>)

fallback_results(word_batch) ==
    [n \in 1..Len(word_batch) |-> fallback_result(word_batch[n])]

\* the words of a batch and the items of an answer
Word(id) == "id" :> Str(<<id>>) @@ "class" :> Str(<<"noun">>)
Words == { Word("a"), Word("b") }
ItemFor(id) == Dict(<< <<"id", Str(<<id>>)>>, <<"category", Str(<<"food_drink">>)>> >>)
Items == { ItemFor("a"), Str(<<"n/a">>) }

WordBatches == SeqsUpTo(Words, MaxBatch) \ { <<>> }

\* the answers the classifier can give for a batch: arrays one shorter, as
\* long and one longer than the batch, alone or inside an object or prose
ResponsesFor(word_batch) ==
    LET lists == { List(l) : l \in UNION { [1..k -> Items] :
                       k \in { Len(word_batch) - 1, Len(word_batch), Len(word_batch) + 1 } } }
        values == lists \cup { Dict(<< <<"results", l>> >>) : l \in lists }
                        \cup { Num("42") }
    IN  { Plain(v) : v \in values } \cup { Wrapped(v) : v \in values }
            \cup { ApiRaises, NoContent, Prose, BrokenArray }

\* for attempt in range(max_retries): the next attempt, or the end of the
\* function without a return statement
GetBatchLoop ==
    /\ pc = "gb_loop"
    /\ IF target.attempt < arg.max_retries
       THEN pc' = "gb_try" /\ UNCHANGED ret
       ELSE pc' = "returned" /\ ret' = None
    /\ UNCHANGED <<dataset_file, out_file, backup_file, inplace, dataset, stats,
                   err, arg, target, notAddFuture>>

\* the try body: one call of the classifier and the parsing of its answer
GetBatchTry ==
    /\ pc = "gb_try"
    /\ \E response \in ResponsesFor(arg.word_batch) :
           LET r == parse_response(response, arg.word_batch)
           IN  /\ target' = [target EXCEPT !.calls = @ + 1, !.response = response]
               /\ IF r.ok
                  THEN pc' = "returned" /\ ret' = r.result
                  ELSE pc' = "gb_except" /\ UNCHANGED ret
    /\ UNCHANGED <<dataset_file, out_file, backup_file, inplace, dataset, stats,
                   err, arg, notAddFuture>>

\* except Exception: the backoff before the next attempt, or the fallback
\* after the last one
GetBatchExcept ==
    /\ pc = "gb_except"
    /\ IF target.attempt < arg.max_retries - 1
       THEN /\ target' = [target EXCEPT !.sleeps = Append(@, 2 ^ target.attempt),
                                        !.attempt = @ + 1,
                                        !.failed = @ + 1]
            /\ pc' = "gb_loop"
            /\ UNCHANGED ret
       ELSE /\ target' = [target EXCEPT !.failed = @ + 1]
            /\ pc' = "returned"
            /\ ret' = List(fallback_results(arg.word_batch))
    /\ UNCHANGED <<dataset_file, out_file, backup_file, inplace, dataset, stats,
                   err, arg, notAddFuture>>

InitGetBatch ==
    /\ arg \in [word_batch : WordBatches, max_retries : 0..MaxRetries]
    /\ target = [attempt |-> 0, calls |-> 0, failed |-> 0, sleeps |-> <<>>,
                 response |-> ApiRaises]
    /\ ret = Unset
    /\ dataset_file = Unset
    /\ dataset = Unset
    /\ stats = Unset
    /\ log_records = Unset
    /\ csv_files = Unset
    /\ logs_file = Unset
    /\ logs_by_id = Unset
    /\ validation_by_id = Unset
    /\ validation_logs_file = Unset
    /\ inplace = FALSE
    /\ out_file = NoFile
    /\ log_out_file = NoFile
    /\ backup_file = NoFile
    /\ md_log_file = NoFile
    /\ DRY_RUN = FALSE
    /\ err = NoError
    /\ pc = "gb_loop"

NextGetBatch ==
    \/ GetBatchLoop
    \/ GetBatchTry
    \/ GetBatchExcept

SpecGetBatch == InitGetBatch /\ [][NextGetBatch]_vars

\* ------------------------------------------------------- process_words
MaxWords == 3

TypeError == [type |-> "TypeError", lineno |-> 0]

\* what get_batch_categorization_from_openai(unprocessed_batch) can return
\* with its default max_retries: an accepted answer or the fallback records
Categorizations(word_batch) ==
    { parse_response(response, word_batch).result.v :
          response \in { r \in ResponsesFor(word_batch) :
                             parse_response(r, word_batch).ok } }
        \cup { fallback_results(word_batch) }

\* {**categorization} on top of the pairs so far
RECURSIVE UpdateDict(_, _, _)
UpdateDict(pairs, more, n) ==
    IF n > Len(more) THEN pairs
    ELSE UpdateDict(DictSet(pairs, more[n][1], more[n][2]), more, n + 1)

\* {"id": word_data['id'], "timestamp": datetime.now().isoformat(), **categorization}
result_entry(word_data, categorization) ==
    Dict(UpdateDict(<< <<"id", word_data["id"]>>, <<"timestamp", Str(<<"now">>)>> >>,
                    categorization.v, 1))

\* the words of a batch whose id is not in existing_ids
Unprocessed(batch, existing_ids) ==
    SelectSeq(batch, LAMBDA word_data : word_data["id"] \notin existing_ids)

\* the first categorization that is no mapping, 0 when all are
FirstNoMapping(categorizations) ==
    IF \E n \in 1..Len(categorizations) : categorizations[n].k # "dict"
    THEN CHOOSE n \in 1..Len(categorizations) :
             /\ categorizations[n].k # "dict"
             /\ \A m \in 1..(n - 1) : categorizations[m].k = "dict"
    ELSE 0

\* the ids of the results in the output file, then open(output_path, 'a')
ProcessWordsStart ==
    /\ pc = "pw_start"
    /\ target' = [target EXCEPT
                     !.existing_ids =
                         IF out_file.written
                         THEN { DictGet(out_file.data[n].v, "id") :
                                    n \in 1..Len(out_file.data) }
                         ELSE {}]
    /\ out_file' = Written(out_file.data)
    /\ stats' = [processed |-> 0]
    /\ pc' = "pw_batch"
    /\ UNCHANGED <<dataset_file, backup_file, inplace, dataset, err, arg, ret,
                   notAddFuture>>

\* one pass of `for i in range(0, total_words, batch_size)`
ProcessWordsBatch ==
    /\ pc = "pw_batch"
    /\ target.i < Len(dataset)
    /\ LET batch == SubSeq(dataset, target.i + 1,
                           IF target.i + arg.batch_size < Len(dataset)
                           THEN target.i + arg.batch_size ELSE Len(dataset))
           unprocessed_batch == Unprocessed(batch, target.existing_ids)
           skipped == Len(batch) - Len(unprocessed_batch)
       IN  IF unprocessed_batch = <<>>
           THEN /\ stats' = [processed |-> stats.processed + skipped]
                /\ target' = [target EXCEPT !.i = @ + arg.batch_size]
                /\ UNCHANGED <<out_file, err, pc>>
           ELSE \E categorizations \in Categorizations(unprocessed_batch) :
                    LET bad == FirstNoMapping(categorizations)
                    IN  IF bad # 0
                        THEN /\ stats' = [processed |-> stats.processed + skipped + bad - 1]
                             /\ target' = [target EXCEPT !.sent = Append(@, unprocessed_batch)]
                             /\ err' = TypeError
                             /\ pc' = "error"
                             /\ UNCHANGED out_file
                        ELSE /\ stats' = [processed |-> stats.processed + Len(batch)]
                             /\ target' = [target EXCEPT
                                              !.sent = Append(@, unprocessed_batch),
                                              !.i = @ + arg.batch_size]
                             /\ out_file' = Written(out_file.data \o
                                    [n \in 1..Len(unprocessed_batch) |->
                                        result_entry(unprocessed_batch[n], categorizations[n])])
                             /\ UNCHANGED <<err, pc>>
    /\ UNCHANGED <<dataset_file, backup_file, inplace, dataset, arg, ret,
                   notAddFuture>>

\* the loop is over and the file is closed
ProcessWordsEnd ==
    /\ pc = "pw_batch"
    /\ target.i >= Len(dataset)
    /\ pc' = "done"
    /\ UNCHANGED <<dataset_file, out_file, backup_file, inplace, dataset, stats,
                   err, arg, target, ret, notAddFuture>>

\* the dataset and the results of an earlier run
DatasetWords == Words \cup { Word("c") }
EarlierResults ==
    { <<>>,
      << result_entry(Word("a"), ItemFor("a")) >>,
      << result_entry(Word("b"), fallback_result(Word("b"))),
         result_entry(Word("b"), ItemFor("a")) >> }

InitProcessWords ==
    /\ dataset \in SeqsUpTo(DatasetWords, MaxWords)
    /\ out_file \in { NoFile } \cup { Written(l) : l \in EarlierResults }
    /\ arg \in [batch_size : 1..MaxBatch]
    /\ target = [i |-> 0, existing_ids |-> {}, sent |-> <<>>, before |-> out_file.data]
    /\ stats = Unset
    /\ ret = Unset
    /\ dataset_file = Unset
    /\ log_records = Unset
    /\ csv_files = Unset
    /\ logs_file = Unset
    /\ logs_by_id = Unset
    /\ validation_by_id = Unset
    /\ validation_logs_file = Unset
    /\ inplace = FALSE
    /\ log_out_file = NoFile
    /\ backup_file = NoFile
    /\ md_log_file = NoFile
    /\ DRY_RUN = FALSE
    /\ err = NoError
    /\ pc = "pw_start"

NextProcessWords ==
    \/ ProcessWordsStart
    \/ ProcessWordsBatch
    \/ ProcessWordsEnd

SpecProcessWords == InitProcessWords /\ [][NextProcessWords]_vars

\* ------------------------------------------------------- _chatgpt_review
KeyError == [type |-> "KeyError", lineno |-> 0]
AssertionError == [type |-> "AssertionError", lineno |-> 0]

\* obj.get(key, default) on a nested dict
GetOr(pairs, key, default) == IF DictHas(pairs, key) THEN DictGet(pairs, key) ELSE default

\* bool(x)
BoolOf(x) == IF Truthy(x) THEN Bool("True") ELSE Bool("False")

\* x or default
OrDefault(x, default) == IF Truthy(x) THEN x ELSE default

\* float(x): numbers and booleans convert, None and the words of the answers
\* raise
FloatRaises(x) == x.k \notin { "int", "bool" }
Float(x) ==
    CASE x = Num("1")        -> Num("1.0")
      [] x = Num("0")        -> Num("0.0")
      [] x = Bool("True")    -> Num("1.0")
      [] x = Bool("False")   -> Num("0.0")
      [] OTHER               -> x

\* ensure_schema(obj) raises when float() does
ensure_schema_raises(obj) == FloatRaises(GetOr(obj.v, "confidence", Num("0.0")))

\* ensure_schema(obj)
ensure_schema(obj) ==
    Dict(<< <<"id", DictGet(obj.v, "id")>>,
            <<"include", BoolOf(GetOr(obj.v, "include", Bool("False")))>>,
            <<"reason", OrDefault(DictGet(obj.v, "reason"), Str(<<>>))>>,
            <<"main_form_ok", BoolOf(GetOr(obj.v, "main_form_ok", Bool("False")))>>,
            <<"main_form_suggestion",
              IF DictGet(obj.v, "main_form_ok") = Bool("False")
              THEN DictGet(obj.v, "main_form_suggestion") ELSE None>>,
            <<"en_ok", BoolOf(GetOr(obj.v, "en_ok", Bool("False")))>>,
            <<"en_suggestions", OrDefault(DictGet(obj.v, "en_suggestions"), List(<<>>))>>,
            <<"de_ok", BoolOf(GetOr(obj.v, "de_ok", Bool("False")))>>,
            <<"de_suggestions", OrDefault(DictGet(obj.v, "de_suggestions"), List(<<>>))>>,
            <<"notes", OrDefault(DictGet(obj.v, "notes"), Str(<<>>))>>,
            <<"confidence", Float(GetOr(obj.v, "confidence", Num("0.0")))>> >>)

\* the fallback record of an item, with the reason of the branch
review_fallback(id, reason) ==
    ensure_schema(Dict(<< <<"id", id>>, <<"include", Bool("False")>>,
                          <<"reason", Str(<<reason>>)>> >>))

\* batched(iterable, n): the first batch of what is left
FirstBatch(items, n) == SubSeq(items, 1, IF Len(items) < n THEN Len(items) ELSE n)
RestAfter(items, n) == SubSeq(items, (IF Len(items) < n THEN Len(items) ELSE n) + 1, Len(items))

\* what call_api gives: an exception of the client, an answer no JSON can be
\* found in, or the parsed answer: a list, an object or a number
ClientRaises == [kind |-> "raises", value |-> None]
ClientJsonError == [kind |-> "json_error", value |-> None]
NoJsonList == [kind |-> "no_json", value |-> None]
Results(value) == [kind |-> "results", value |-> value]

\* the dict elements of results in order; iterating an object gives its keys
DictElements(results) ==
    IF results.k = "list"
    THEN SelectSeq(results.v, LAMBDA r : r.k = "dict")
    ELSE <<>>

\* by_id = {r.get("id"): ensure_schema(r) ...}: the last element with the id
InById(elements, id) == \E n \in 1..Len(elements) : DictGet(elements[n].v, "id") = id
ById(elements, id) ==
    ensure_schema(elements[CHOOSE n \in 1..Len(elements) :
        /\ DictGet(elements[n].v, "id") = id
        /\ \A m \in (n + 1)..Len(elements) : DictGet(elements[m].v, "id") # id])

\* the try body raises: call_api does, results cannot be iterated,
\* ensure_schema does, or it["id"] does
TryRaises(outcome, batch) ==
    \/ outcome.kind # "results"
    \/ outcome.value.k \notin { "list", "dict" }
    \/ \E n \in 1..Len(DictElements(outcome.value)) :
           ensure_schema_raises(DictElements(outcome.value)[n])
    \/ \E n \in 1..Len(batch) : "id" \notin DOMAIN batch[n]

\* the records written for a batch after a call that succeeded
BatchRecords(outcome, batch) ==
    [n \in 1..Len(batch) |->
        IF InById(DictElements(outcome.value), batch[n]["id"])
        THEN ById(DictElements(outcome.value), batch[n]["id"])
        ELSE review_fallback(batch[n]["id"], "Kein Ergebnis vom Modell.")]

\* the items before the first one without id, for which the fallback loop
\* writes a record before it raises
RECURSIVE WithIdPrefix(_)
WithIdPrefix(batch) ==
    IF batch = <<>> \/ "id" \notin DOMAIN Head(batch) THEN <<>>
    ELSE << Head(batch) >> \o WithIdPrefix(Tail(batch))

FallbackRecords(batch, reason) ==
    [n \in 1..Len(WithIdPrefix(batch)) |-> review_fallback(batch[n]["id"], reason)]

\* the lines of the output file that parse to an object, and their ids
ParsedLines(lines) == SelectSeq(lines, LAMBDA l : l.k = "dict")
DoneIds(lines) ==
    { DictGet(ParsedLines(lines)[n].v, "id") : n \in 1..Len(ParsedLines(lines)) }

\* d.get("id") not in done_ids
NotDone(d, done_ids) == Get(d, "id") \notin done_ids

\* the items of the dataset, one of them without id
ReviewItems == Words \cup { "class" :> Str(<<"noun">>) }

\* the objects of an answer: a full one, one with the id only, one whose
\* confidence is a word, and a string in place of an object
AnswerElements ==
    { Dict(<< <<"id", Str(<<"a">>)>>, <<"include", Num("1")>>,
              <<"reason", Str(<<"common">>)>>, <<"main_form_ok", Bool("False")>>,
              <<"main_form_suggestion", Str(<<"x">>)>>, <<"confidence", Num("1")>> >>),
      Dict(<< <<"id", Str(<<"b">>)>> >>),
      Dict(<< <<"id", Str(<<"b">>)>>, <<"include", Bool("True")>>,
              <<"confidence", Str(<<"high">>)>> >>),
      Str(<<"n/a">>) }

ReviewOutcomes ==
    { Results(List(l)) : l \in SeqsUpTo(AnswerElements, MaxBatch) }
        \cup { Results(Dict(<< <<"id", Str(<<"a">>)>> >>)), Results(Num("42")),
               ClientRaises, ClientJsonError, NoJsonList }

\* the output file of an earlier run: none, one record, or a line that is no
\* JSON followed by a record
EarlierLines ==
    { <<>>,
      << review_fallback(Str(<<"a">>), "Kein Ergebnis vom Modell.") >>,
      << Str(<<"{">>), ensure_schema(Dict(<< <<"id", Str(<<"b">>)>>, <<"include", Bool("True")>> >>)) >> }

\* the API key, load_json, --limit, the ids already in the output file and
\* open(args.output, "a")
ReviewStart ==
    /\ pc = "rv_start"
    /\ IF ~arg.api_key
       THEN err' = SystemExit /\ pc' = "error" /\ UNCHANGED <<dataset, target, out_file, stats>>
       ELSE IF dataset_file.json = "missing"
       THEN err' = FileNotFoundError /\ pc' = "error"
            /\ UNCHANGED <<dataset, target, out_file, stats>>
       ELSE IF dataset_file.json = "invalid"
       THEN err' = JSONDecodeError /\ pc' = "error"
            /\ UNCHANGED <<dataset, target, out_file, stats>>
       ELSE IF dataset_file.json # "array"
       THEN err' = AssertionError /\ pc' = "error"
            /\ UNCHANGED <<dataset, target, out_file, stats>>
       ELSE LET data == IF arg.limit > 0
                        THEN SubSeq(dataset_file.data, 1,
                                 IF arg.limit < Len(dataset_file.data)
                                 THEN arg.limit ELSE Len(dataset_file.data))
                        ELSE dataset_file.data
                done_ids == IF out_file.written THEN DoneIds(out_file.data) ELSE {}
            IN  /\ dataset' = data
                /\ target' = [target EXCEPT
                                 !.done_ids = done_ids,
                                 !.pending = SelectSeq(data, LAMBDA d : NotDone(d, done_ids))]
                /\ out_file' = Written(out_file.data)
                /\ stats' = [total_processed |-> 0]
                /\ pc' = "rv_batch"
                /\ UNCHANGED err
    /\ UNCHANGED <<dataset_file, backup_file, inplace, arg, ret, notAddFuture>>

\* the next batch of `for batch in batched(...)`, or the end of the run
ReviewNextBatch ==
    /\ pc = "rv_batch"
    /\ IF target.pending = <<>>
       THEN pc' = "done" /\ UNCHANGED target
       ELSE /\ target' = [target EXCEPT
                             !.batch = FirstBatch(target.pending, arg.batch_size),
                             !.pending = RestAfter(target.pending, arg.batch_size),
                             !.tries = 0]
            /\ pc' = "rv_try"
    /\ UNCHANGED <<dataset_file, out_file, backup_file, inplace, dataset, stats,
                   err, arg, ret, notAddFuture>>

\* tries += 1 and the try body: the call, by_id, missing, and the records of
\* the batch written
ReviewTry ==
    /\ pc = "rv_try"
    /\ \E outcome \in ReviewOutcomes :
           IF TryRaises(outcome, target.batch)
           THEN /\ target' = [target EXCEPT !.tries = @ + 1, !.outcome = outcome]
                /\ pc' = "rv_except"
                /\ UNCHANGED <<out_file, stats>>
           ELSE /\ target' = [target EXCEPT
                                 !.tries = @ + 1, !.outcome = outcome,
                                 !.ended = @ \o target.batch]
                /\ out_file' = Written(out_file.data \o BatchRecords(outcome, target.batch))
                /\ stats' = [total_processed |-> stats.total_processed + Len(target.batch)]
                /\ pc' = "rv_batch"
    /\ UNCHANGED <<dataset_file, backup_file, inplace, dataset, err, arg, ret,
                   notAddFuture>>

\* the two except clauses: after the third failure the fallback records,
\* before it a sleep and the next attempt
ReviewExcept ==
    /\ pc = "rv_except"
    /\ IF target.tries >= 3
       THEN LET reason == IF target.outcome.kind = "json_error"
                          THEN "JSON-Parsing-Fehler nach 3 Versuchen."
                          ELSE "API-Fehler nach 3 Versuchen"
            IN  /\ out_file' = Written(out_file.data \o FallbackRecords(target.batch, reason))
                /\ target' = [target EXCEPT !.ended = @ \o target.batch]
                /\ IF \E n \in 1..Len(target.batch) : "id" \notin DOMAIN target.batch[n]
                   THEN err' = KeyError /\ pc' = "error" /\ UNCHANGED stats
                   ELSE /\ stats' = [total_processed |->
                                         stats.total_processed + Len(target.batch)]
                        /\ pc' = "rv_batch"
                        /\ UNCHANGED err
       ELSE pc' = "rv_try" /\ UNCHANGED <<out_file, target, stats, err>>
    /\ UNCHANGED <<dataset_file, backup_file, inplace, dataset, arg, ret,
                   notAddFuture>>

InitReview ==
    /\ dataset_file \in { JsonArray(d) : d \in SeqsUpTo(ReviewItems, MaxWords) }
                            \cup { JsonObject, InvalidJson, MissingJson }
    /\ out_file \in { NoFile } \cup { Written(l) : l \in EarlierLines }
    /\ arg \in [batch_size : 1..MaxBatch, limit : 0..1, api_key : BOOLEAN]
    /\ target = [pending |-> <<>>, batch |-> <<>>, tries |-> 0, done_ids |-> {},
                 outcome |-> ClientRaises,
                 ended |-> <<>>, before |-> out_file.data]
    /\ dataset = Unset
    /\ stats = Unset
    /\ ret = Unset
    /\ log_records = Unset
    /\ csv_files = Unset
    /\ logs_file = Unset
    /\ logs_by_id = Unset
    /\ validation_by_id = Unset
    /\ validation_logs_file = Unset
    /\ inplace = FALSE
    /\ log_out_file = NoFile
    /\ backup_file = NoFile
    /\ md_log_file = NoFile
    /\ DRY_RUN = FALSE
    /\ err = NoError
    /\ pc = "rv_start"

NextReview ==
    \/ ReviewStart
    \/ ReviewNextBatch
    \/ ReviewTry
    \/ ReviewExcept

SpecReview == InitReview /\ [][NextReview]_vars

\* ---------------------------------------------- properties of merge
\* the state right after merge returned
Merged == pc = "summary"

Whitelist == { WHITELIST_FIELDS[n] : n \in 1..Len(WHITELIST_FIELDS) }

\* the record at position i before and after merge
Before(i) == dataset_file.data[i]
After(i) == dataset[i]
Positions == 1..Len(dataset_file.data)

IsBlank(s) == \A n \in 1..Len(s) : s[n] = " "

\* the spec's "meaningful": not null, not an empty or whitespace-only
\* string, not an empty list
Meaningful(x) ==
    ~ \/ x.k = "none"
      \/ x.k = "str" /\ IsBlank(x.v)
      \/ x.k = "list" /\ x.v = <<>>

\* the record carries a usable id (present, not null, not empty)
HasId(e) == "id" \in DOMAIN e /\ e["id"] \notin { None, Str(<<>>) }

\* the record has an annotation in the mapping
Matched(i) == HasId(Before(i)) /\ Before(i)["id"] \in DOMAIN logs_by_id
Source(i) == logs_by_id[Before(i)["id"]]

\* C1: a whitelisted field that holds a meaningful value before merge
\* (false and 0 included) holds the same value after merge, whatever the
\* matched annotation supplies.
C1_NonOverwrite ==
    Merged =>
        /\ Len(dataset) = Len(dataset_file.data)
        /\ \A i \in Positions : \A F \in Whitelist :
              (F \in DOMAIN Before(i) /\ Meaningful(Before(i)[F]))
                  => (F \in DOMAIN After(i) /\ After(i)[F] = Before(i)[F])

C1_Witness ==
    /\ Merged
    /\ \E i \in Positions :
          /\ Matched(i)
          /\ "category" \in DOMAIN Before(i)
          /\ Before(i)["category"] = Bool("False")
          /\ "category" \in DOMAIN Source(i)
          /\ Source(i)["category"] = Str(<<"y">>)
          /\ After(i)["category"] = Bool("False")

\* C2: merging the same mapping a second time adds no field, modifies no
\* entry and leaves the dataset as the first merge left it.
C2_Idempotent ==
    pc = "summary2" =>
        /\ stats.fields_added = 0
        /\ stats.entries_modified = 0
        /\ dataset = merge(dataset_file.data, logs_by_id).dataset

\* C3: the validation merge leaves a meaningful top-level "include" or
\* "validation" value of a record as it was.
C3_ValidationNonOverwrite ==
    Merged =>
        /\ Len(dataset) = Len(dataset_file.data)
        /\ \A i \in Positions : \A key \in { "include", "validation" } :
              (key \in DOMAIN Before(i) /\ Meaningful(Before(i)[key]))
                  => (key \in DOMAIN After(i) /\ After(i)[key] = Before(i)[key])

\* the lines of the annotation source that carry a record for id
RecordsOf(id) ==
    { n \in 1..Len(logs_file) :
        /\ logs_file[n].kind = "object"
        /\ "id" \in DOMAIN logs_file[n].rec
        /\ logs_file[n].rec["id"] = id }

SourceIds ==
    { logs_file[n].rec["id"] :
        n \in { m \in 1..Len(logs_file) :
                  logs_file[m].kind = "object" /\ "id" \in DOMAIN logs_file[m].rec } }

\* the parsed timestamp of the record on line n, <<>> when it has none
TimestampOf(n) == ParseTimestamp(Get(logs_file[n].rec, "timestamp"))

\* load_logs returned
Loaded == pc = "merge"

\* C4: of two records sharing an id with parseable timestamps t1 < t2 the
\* one with t2 is indexed, whichever comes first (and no record with a
\* smaller timestamp than another of its id is ever indexed); of two
\* records sharing an id with no parseable timestamp the later line is
\* indexed (and so is the last line when no record of the id has one).
C4_DuplicateResolution ==
    Loaded =>
        \A id \in SourceIds :
            /\ id \in DOMAIN logs_by_id
            /\ \A m \in RecordsOf(id) : \A n \in RecordsOf(id) :
                  /\ ( /\ TimestampOf(m) # <<>> /\ TimestampOf(n) # <<>>
                       /\ Later(TimestampOf(n), TimestampOf(m)) )
                        => /\ logs_by_id[id] # logs_file[m].rec
                           /\ RecordsOf(id) = {m, n}
                                 => logs_by_id[id] = logs_file[n].rec
                  /\ ( /\ TimestampOf(m) = <<>> /\ TimestampOf(n) = <<>>
                       /\ m < n
                       /\ RecordsOf(id) = {m, n} )
                        => logs_by_id[id] = logs_file[n].rec
            /\ (\A n \in RecordsOf(id) : TimestampOf(n) = <<>>)
                  => \E n \in RecordsOf(id) :
                        /\ \A m \in RecordsOf(id) : m <= n
                        /\ logs_by_id[id] = logs_file[n].rec

C4_Witness ==
    /\ Loaded
    /\ Len(logs_file) = 2
    /\ RecordsOf(IdA) = {1, 2}
    /\ Get(logs_file[1].rec, "timestamp") = Str(<<"2024-01-02">>)
    /\ Get(logs_file[2].rec, "timestamp") = Str(<<"2024-01-01">>)
    /\ logs_by_id[IdA] = logs_file[1].rec

\* C5: a whitelisted field that is absent, null, an empty string or an
\* empty list before merge holds the matched annotation's value after merge
\* when the annotation contains the field.
C5_Fill ==
    Merged =>
        \A i \in Positions : \A F \in Whitelist :
            ( /\ Matched(i)
              /\ F \in DOMAIN Source(i)
              /\ \/ F \notin DOMAIN Before(i)
                 \/ Before(i)[F] \in { None, Str(<<>>), List(<<>>) } )
                => (F \in DOMAIN After(i) /\ After(i)[F] = Source(i)[F])

C5_Witness ==
    /\ Merged
    /\ \E i \in Positions :
          /\ Matched(i)
          /\ "category" \in DOMAIN Before(i)
          /\ Before(i)["category"] = List(<<>>)
          /\ "category" \in DOMAIN Source(i)
          /\ Source(i)["category"] = Str(<<"y">>)
          /\ After(i)["category"] = Str(<<"y">>)

\* C6: merge neither adds, removes nor changes a field outside the
\* whitelist, even when the matched annotation contains it, and the change
\* log names whitelisted fields only.
C6_WhitelistClosure ==
    Merged =>
        /\ \A i \in Positions :
              \A key \in (DOMAIN Before(i) \cup DOMAIN After(i)) \ Whitelist :
                  /\ key \in DOMAIN Before(i)
                  /\ key \in DOMAIN After(i)
                  /\ After(i)[key] = Before(i)[key]
        /\ \A n \in 1..Len(log_records) : log_records[n].field \in Whitelist

C6_Witness ==
    /\ Merged
    /\ \E i \in Positions :
          /\ Matched(i)
          /\ "timestamp" \in DOMAIN Source(i)
          /\ "timestamp" \in DOMAIN Before(i)
          /\ Source(i)["timestamp"] # Before(i)["timestamp"]
          /\ After(i)["timestamp"] = Before(i)["timestamp"]
          /\ "category" \in DOMAIN After(i)
    /\ \E i \in Positions :
          /\ Matched(i)
          /\ "timestamp" \in DOMAIN Source(i)
          /\ "timestamp" \notin DOMAIN After(i)

NoIdCount == Cardinality({ i \in Positions : ~HasId(Before(i)) })
UnmatchedCount == Cardinality({ i \in Positions : HasId(Before(i)) /\ ~Matched(i) })
MatchedCount == Cardinality({ i \in Positions : Matched(i) })

\* C7 as stated: a record without id is left untouched and is counted in
\* entries_unmatched.
C7_NoIdCountedUnmatched ==
    Merged =>
        /\ \A i \in Positions : ~HasId(Before(i)) => After(i) = Before(i)
        /\ stats.entries_unmatched = UnmatchedCount + NoIdCount

\* C7 amended: a record without id is left untouched, gets no change-log
\* entry and is counted in no counter but entries_total (entries_unmatched
\* counts only the records with an id and no annotation); the records
\* around it are processed all the same.
C7_NoIdSkipped ==
    Merged =>
        /\ \A i \in Positions : ~HasId(Before(i)) => After(i) = Before(i)
        /\ \A n \in 1..Len(log_records) :
              log_records[n].id \notin { None, Str(<<>>) }
        /\ stats.entries_total = Len(dataset_file.data)
        /\ stats.entries_unmatched = UnmatchedCount
        /\ stats.entries_with_log = MatchedCount

C7_Witness ==
    /\ Merged
    /\ Len(dataset_file.data) = 2
    /\ ~HasId(Before(1))
    /\ Matched(2)
    /\ After(2) # Before(2)
    /\ stats.entries_unmatched = 0

\* C8: entries_with_log + entries_unmatched = entries_total minus the
\* number of records lacking an id, repeated ids included.
C8_EntryCounters ==
    Merged =>
        /\ stats.entries_total = Len(dataset_file.data)
        /\ stats.entries_with_log + stats.entries_unmatched
              = stats.entries_total - NoIdCount

C8_Witness ==
    /\ Merged
    /\ Len(dataset_file.data) = 2
    /\ HasId(Before(1))
    /\ HasId(Before(2))
    /\ Before(1)["id"] = Before(2)["id"]
    /\ ~Matched(1)
    /\ stats.entries_unmatched = 2

MergeDecisions ==
    { p \in Positions \X Whitelist : Matched(p[1]) /\ p[2] \in DOMAIN Source(p[1]) }

\* C9: fields_added + fields_skipped_overwrite is the number of (record,
\* whitelisted field) pairs whose record is matched and whose annotation
\* contains the field, and so is the length of the change log.
C9_FieldCounters ==
    Merged =>
        /\ stats.fields_added + stats.fields_skipped_overwrite
              = Cardinality(MergeDecisions)
        /\ Len(log_records) = Cardinality(MergeDecisions)

C9_Witness ==
    /\ Merged
    /\ stats.fields_added >= 1
    /\ stats.fields_skipped_overwrite >= 1
    /\ Cardinality(MergeDecisions) >= 3

\* the decisions of record i from whitelist position n on, in whitelist order
RECURSIVE FieldDecisions(_, _)
FieldDecisions(i, n) ==
    IF n > Len(WHITELIST_FIELDS) THEN <<>>
    ELSE (IF Matched(i) /\ WHITELIST_FIELDS[n] \in DOMAIN Source(i)
          THEN << <<i, WHITELIST_FIELDS[n]>> >>
          ELSE <<>>)
         \o FieldDecisions(i, n + 1)

\* the decisions of the records from position i on, in dataset order
RECURSIVE DecisionsFrom(_)
DecisionsFrom(i) ==
    IF i > Len(dataset_file.data) THEN <<>>
    ELSE FieldDecisions(i, 1) \o DecisionsFrom(i + 1)

\* C12: the change log lists the decisions in dataset order and, within one
\* record, in whitelist order: its n-th entry is the n-th (record, field)
\* decision in that order.
C12_LogOrder ==
    Merged =>
        LET decisions == DecisionsFrom(1)
        IN  /\ Len(log_records) = Len(decisions)
            /\ \A n \in 1..Len(decisions) :
                  /\ log_records[n].id = Before(decisions[n][1])["id"]
                  /\ log_records[n].field = decisions[n][2]

C12_Witness ==
    /\ Merged
    /\ Len(log_records) = 3
    /\ log_records[1].id = IdB
    /\ log_records[2].id = IdA
    /\ log_records[2].field = "frequency_score"
    /\ log_records[3].id = IdA
    /\ log_records[3].field = "category"

\* C13: a record with an id and no annotation in the mapping is left as it
\* was, no change-log entry carries an id without annotation, and
\* entries_unmatched counts exactly these records.
C13_UnmatchedUntouched ==
    Merged =>
        /\ \A i \in Positions :
              (HasId(Before(i)) /\ ~Matched(i)) => After(i) = Before(i)
        /\ \A n \in 1..Len(log_records) : log_records[n].id \in DOMAIN logs_by_id
        /\ stats.entries_unmatched
              = Cardinality({ i \in Positions : HasId(Before(i)) /\ ~Matched(i) })

C13_Witness ==
    /\ Merged
    /\ Len(dataset_file.data) = 2
    /\ HasId(Before(1))
    /\ ~Matched(1)
    /\ "category" \in DOMAIN Before(1)
    /\ Before(1)["category"] = None
    /\ Matched(2)
    /\ log_records # <<>>
    /\ stats.entries_unmatched = 1

\* the records that receive at least one add_field decision
AddedTo ==
    { i \in Positions :
        /\ Matched(i)
        /\ \E F \in Whitelist \cap DOMAIN Source(i) :
              F \notin DOMAIN Before(i) \/ ~Meaningful(Before(i)[F]) }

\* C14: entries_modified is the number of records that received an
\* add_field decision, entries_with_log the number of records with an id
\* and a matching annotation; entries_modified <= entries_with_log <=
\* entries_total.
C14_ModifiedCounters ==
    Merged =>
        /\ stats.entries_modified = Cardinality(AddedTo)
        /\ stats.entries_with_log = Cardinality({ i \in Positions : Matched(i) })
        /\ stats.entries_modified <= stats.entries_with_log
        /\ stats.entries_with_log <= stats.entries_total

C14_Witness ==
    /\ Merged
    /\ stats.entries_total = 2
    /\ stats.entries_with_log = 2
    /\ stats.entries_modified = 1
    /\ stats.fields_skipped_overwrite = 1

\* the input files that must stop the run
InvalidLineNumbers == { n \in 1..Len(logs_file) : logs_file[n].kind = "invalid" }
MalformedInput == dataset_file.json # "array" \/ InvalidLineNumbers # {}

\* C10: when the dataset is not a JSON array or a line of the annotation
\* source fails to parse, the run never gets past the loads and writes
\* neither output file; a run that ended with an error wrote nothing, and
\* the error of load_logs names the first line that fails to parse.
C10_MalformedInputStops ==
    /\ MalformedInput =>
          /\ pc \in { "load_dataset", "load_logs", "error" }
          /\ out_file = NoFile
          /\ log_out_file = NoFile
    /\ pc = "error" =>
          /\ MalformedInput
          /\ out_file = NoFile
          /\ log_out_file = NoFile
          /\ err # NoError
          /\ dataset_file.json # "array" => logs_by_id = Unset
          /\ dataset_file.json = "array" =>
                \E n \in InvalidLineNumbers :
                    /\ \A m \in InvalidLineNumbers : n <= m
                    /\ err = ValueError(n)
    /\ (out_file # NoFile \/ log_out_file # NoFile) =>
          /\ ~MalformedInput
          /\ ~DRY_RUN
          /\ pc \in { "write_log", "done" }

C10_Witness ==
    /\ pc = "error"
    /\ dataset_file.json = "array"
    /\ Len(logs_file) = 3
    /\ logs_file[1].kind = "object"
    /\ logs_file[2].kind = "invalid"
    /\ logs_file[3].kind = "invalid"
    /\ err = ValueError(2)

\* ------------------------------------ properties of the validation merge
ValidationWhitelist == { VALIDATION_FIELDS[n] : n \in 1..Len(VALIDATION_FIELDS) }

\* the record has a validation record in the mapping
Validated(i) == HasId(Before(i)) /\ Before(i)["id"] \in DOMAIN validation_by_id
ValidationOf(i) == validation_by_id[Before(i)["id"]]

\* the keys of a sub-mapping
SubKeys(d) == { d.v[n][1] : n \in 1..Len(d.v) }

C15_ShapePreserved ==
    Merged =>
        /\ Len(dataset) = Len(dataset_file.data)
        /\ \A i \in Positions :
              /\ ("id" \in DOMAIN After(i)) = ("id" \in DOMAIN Before(i))
              /\ "id" \in DOMAIN Before(i) => After(i)["id"] = Before(i)["id"]

C15_Witness ==
    /\ Merged
    /\ Len(dataset_file.data) = 2
    /\ "id" \notin DOMAIN Before(1)
    /\ Before(2) = ("id" :> IdA)
    /\ After(2) # Before(2)
    /\ log_records[1].action = "add_validation_object"

\* ------------------------------------------- properties of _add_future
Returned == pc = "returned"

\* the first MaxPersons persons
Persons == { EXPECTED_PERSONS[n] : n \in 1..MaxPersons }

\* a non-blank string
IsForm(x) == x.k = "str" /\ ~IsBlank(x.v)

\* the text between the leading and the trailing blanks
RECURSIVE Trimmed(_)
Trimmed(s) ==
    IF s = <<>> THEN s
    ELSE IF Head(s) = " " THEN Trimmed(Tail(s))
    ELSE IF s[Len(s)] = " " THEN Trimmed(SubSeq(s, 1, Len(s) - 1))
    ELSE s

\* s without its first two characters when these are "ka"
WithoutOneKa(s) ==
    IF Len(s) >= 2 /\ SubSeq(s, 1, 2) = <<"k", "a">> THEN SubSeq(s, 3, Len(s)) ELSE s

\* C18: the future table has exactly the persons whose present form is a
\* non-blank string, and the form of each is "ghadi " followed by the trimmed
\* present form with one leading "ka" removed.
C18_FutureRule ==
    Returned =>
        /\ ret.k = "dict"
        /\ \A person \in Persons :
              LET p == DictGet(arg.v, person)
              IN  IF DictHas(arg.v, person) /\ IsForm(p)
                  THEN /\ DictHas(ret.v, person)
                       /\ DictGet(ret.v, person)
                             = Str(<<"g", "h", "a", "d", "i", " ">> \o WithoutOneKa(Trimmed(p.v)))
                  ELSE ~DictHas(ret.v, person)

C18_Witness ==
    /\ Returned
    /\ DictGet(arg.v, "ana") = Str(<<" ", "k", "a", "k", "a", "t", " ">>)
    /\ DictGet(ret.v, "ana") = Str(<<"g", "h", "a", "d", "i", " ", "k", "a", "t">>)
    /\ DictHas(arg.v, "nta")
    /\ DictGet(arg.v, "nta") = Str(<<" ">>)
    /\ ~DictHas(ret.v, "nta")

\* C19: update_entry returns True when it changed the entry, and an entry
\* for which it returns False is as it was before the call.
C19_ReturnTellsChange ==
    Returned =>
        /\ target # arg => ret = TRUE
        /\ ret = FALSE => target = arg

\* the table of a tense in an entry, empty when the entry has none
TableOf(e, tense) ==
    IF /\ IsDictEntry(e)
       /\ "conjugations" \in DOMAIN e
       /\ e["conjugations"].k = "dict"
       /\ DictGet(e["conjugations"].v, tense).k = "dict"
    THEN DictGet(e["conjugations"].v, tense).v
    ELSE <<>>

\* update_entry goes on to compute forms for the entry
IsVerbWithPresent(e) ==
    /\ IsDictEntry(e)
    /\ "class" \in DOMAIN e
    /\ e["class"] = Str(<<"verb">>)
    /\ TableOf(e, "present") # <<>>

\* C20: a future form that was a non-blank string is kept; a person with a
\* computed form and no such future form gets the computed form; a person
\* without computed form keeps what the future table held; a second call
\* returns False and leaves the entry as the first call left it.
C20_FillsMissingOnly ==
    /\ Returned =>
          \A person \in Persons :
              LET old_table == TableOf(arg, "future")
                  new_table == TableOf(target, "future")
                  computed  == build_future_from_present(TableOf(arg, "present"))
                  had_form  == DictHas(old_table, person) /\ IsForm(DictGet(old_table, person))
              IN  /\ had_form =>
                        /\ DictHas(new_table, person)
                        /\ DictGet(new_table, person) = DictGet(old_table, person)
                  /\ (IsVerbWithPresent(arg) /\ DictHas(computed, person) /\ ~had_form) =>
                        /\ DictHas(new_table, person)
                        /\ DictGet(new_table, person) = DictGet(computed, person)
                  /\ ~(IsVerbWithPresent(arg) /\ DictHas(computed, person)) =>
                        /\ DictHas(new_table, person) = DictHas(old_table, person)
                        /\ DictGet(new_table, person) = DictGet(old_table, person)
    /\ pc = "returned2" => (ret = FALSE /\ target = arg)

C20_Witness ==
    /\ pc = "returned2"
    /\ ret = FALSE
    /\ TableOf(target, "present")
          = << <<"ana", Str(<<"k", "a", "n">>)>>, <<"nta", Str(<<" ", "k", "a", "t">>)>> >>
    /\ TableOf(target, "future")
          = << <<"ana", Str(<<"x">>)>>,
               <<"nta", Str(<<"g", "h", "a", "d", "i", " ", "t">>)>> >>

\* C17: once an in-place run of _add_future or update_categories has written
\* its backup, the backup holds what the dataset file held when the run
\* started (the file itself is rewritten only in the next step).
C17_BackupHoldsOriginal ==
    /\ pc = "af_save_inplace" => backup_file = Written(dataset_file)
    /\ pc = "uc_save_inplace" => backup_file = Written(dataset_file.data)

\* ------------------------------------------------- properties of runs
\* C16: in a run with the dry-run switch set no step writes the output
\* dataset, the dataset file itself or a backup of it, and the run ends with
\* the decisions and the counters computed.
C16_DryRunWritesNoDataset ==
    /\ [][DRY_RUN => /\ out_file' = out_file
                     /\ dataset_file' = dataset_file
                     /\ backup_file' = backup_file]_vars
    /\ [](DRY_RUN /\ pc = "done" =>
            /\ out_file = NoFile
            /\ backup_file = NoFile
            /\ stats # Unset
            /\ "entries_total" \in DOMAIN stats =>
                  stats.entries_total = Len(dataset_file.data))

C16_Witness ==
    /\ DRY_RUN
    /\ pc = "done"
    /\ out_file = NoFile
    /\ "fields_added" \in DOMAIN stats
    /\ stats.fields_added = 1
    /\ Len(log_records) = 1
    /\ dataset # dataset_file.data

\* ------------------------------------- load_logs, mixed and tie cases
\* the lines of id whose timestamp parses
Timestamped(id) == { n \in RecordsOf(id) : TimestampOf(n) # <<>> }

\* C27: the mapping has exactly the ids of the source; for an id with a
\* parseable timestamp on some record the indexed record is the first line
\* among those with the greatest timestamp (so it beats every record without
\* timestamp, and of equal timestamps the earlier line stays); for an id with
\* none the last line is indexed.
C27_MixedAndTies ==
    Loaded =>
        /\ DOMAIN logs_by_id = SourceIds
        /\ \A id \in SourceIds :
              IF Timestamped(id) # {}
              THEN \E n \in Timestamped(id) :
                      /\ \A m \in Timestamped(id) : ~Later(TimestampOf(m), TimestampOf(n))
                      /\ \A m \in Timestamped(id) :
                            m < n => Later(TimestampOf(n), TimestampOf(m))
                      /\ logs_by_id[id] = logs_file[n].rec
              ELSE \E n \in RecordsOf(id) :
                      /\ \A m \in RecordsOf(id) : m <= n
                      /\ logs_by_id[id] = logs_file[n].rec

C27_Witness ==
    /\ Loaded
    /\ Len(logs_file) = 3
    /\ RecordsOf(IdA) = {1, 2, 3}
    /\ "timestamp" \notin DOMAIN logs_file[1].rec
    /\ logs_file[2].rec["category"] = Str(<<"y">>)
    /\ Get(logs_file[2].rec, "timestamp") = Str(<<"2024-01-02">>)
    /\ logs_file[3].rec["category"] = Str(<<"z">>)
    /\ Get(logs_file[3].rec, "timestamp") = Str(<<"2024-01-02", "T", "00:00:00">>)
    /\ logs_by_id[IdA] = logs_file[2].rec

\* ---------------------------------------------- properties of add_form
\* the forms of an entry, none when it has no list
FormsOf(e) == IF "forms" \in DOMAIN e THEN e["forms"].v ELSE <<>>

DistinctKeys(forms) ==
    \A i \in 1..Len(forms) : \A j \in 1..Len(forms) :
        form_key(forms[i]) = form_key(forms[j]) => i = j

IsLemma(f) == DictGet(f.v, "isLemma") = Bool("True")

\* the key add_form is called for
CallKey(a) == <<a.latin.v, OrEmpty(a.gender), OrEmpty(a.number)>>

\* C24: the forms of the entry have pairwise-distinct keys after every call;
\* a call with an empty latin leaves the entry as it was; a call for a key
\* the entry has adds no form and changes nothing but the isLemma of the
\* form with that key, which becomes true when the call says so; a form that
\* is a lemma stays one.
C24_NoDuplicateForms ==
    /\ [](DistinctKeys(FormsOf(target)))
    /\ [][LET old == FormsOf(target)
              new == FormsOf(target')
              a   == arg'
          IN  /\ ~Truthy(a.latin) => target' = target
              /\ Len(new) >= Len(old)
              /\ \A i \in 1..Len(old) :
                    /\ form_key(new[i]) = form_key(old[i])
                    /\ IsLemma(old[i]) => IsLemma(new[i])
              /\ (Truthy(a.latin) /\ \E i \in 1..Len(old) : form_key(old[i]) = CallKey(a)) =>
                    /\ Len(new) = Len(old)
                    /\ \A i \in 1..Len(old) :
                          IF form_key(old[i]) = CallKey(a) /\ a.isLemma
                          THEN new[i] = Dict(DictSet(old[i].v, "isLemma", Bool("True")))
                          ELSE new[i] = old[i]
              /\ (Truthy(a.latin) /\ ~\E i \in 1..Len(old) : form_key(old[i]) = CallKey(a)) =>
                    /\ Len(new) = Len(old) + 1
                    /\ form_key(new[Len(new)]) = CallKey(a)
                    /\ \A i \in 1..Len(old) : new[i] = old[i]]_vars

C24_Witness ==
    /\ stats.calls = 1
    /\ arg = [latin |-> Str(<<"dar">>), gender |-> Str(<<>>), number |-> None,
              isLemma |-> TRUE]
    /\ Len(FormsOf(target)) = 2
    /\ FormsOf(target)[1]
          = Dict(<< <<"latin", Str(<<"dar">>)>>, <<"gender", None>>,
                    <<"isLemma", Bool("True")>> >>)

\* ------------------------------- properties of validate_and_normalize
EnumSet(enum) == { Str(<<enum[n]>>) : n \in 1..Len(enum) }

\* the topics of the input when they are a list, else none
GivenTopics == IF "topics" \in DOMAIN arg /\ arg["topics"].k = "list" THEN arg["topics"].v ELSE <<>>

IsAllowedTopic(t) == t \in EnumSet(TOPICS_ENUM)

\* C25: the returned frequency_level is in FREQ_ENUM, equal to the input's
\* when that was in the enum and "common" otherwise; likewise formality_level
\* with FORMAL_ENUM and "neutral"; topics is a list of at most three topics
\* of TOPICS_ENUM, the first allowed topics of the input list in their order,
\* and empty when the input's topics is no list.
C25_ResultInsideEnums ==
    Returned =>
        LET res     == ret.result
            allowed == SelectSeq(GivenTopics, IsAllowedTopic)
        IN  /\ res = target
            /\ DOMAIN res = DOMAIN arg \cup { "frequency_level", "formality_level", "topics" }
            /\ res["frequency_level"] \in EnumSet(FREQ_ENUM)
            /\ res["frequency_level"] =
                  IF "frequency_level" \in DOMAIN arg
                     /\ arg["frequency_level"] \in EnumSet(FREQ_ENUM)
                  THEN arg["frequency_level"] ELSE Str(<<"common">>)
            /\ res["formality_level"] \in EnumSet(FORMAL_ENUM)
            /\ res["formality_level"] =
                  IF "formality_level" \in DOMAIN arg
                     /\ arg["formality_level"] \in EnumSet(FORMAL_ENUM)
                  THEN arg["formality_level"] ELSE Str(<<"neutral">>)
            /\ res["topics"].k = "list"
            /\ Len(res["topics"].v) <= 3
            /\ \A n \in 1..Len(res["topics"].v) : IsAllowedTopic(res["topics"].v[n])
            /\ res["topics"].v =
                  SubSeq(allowed, 1, IF Len(allowed) > 3 THEN 3 ELSE Len(allowed))

C25_Witness ==
    /\ Returned
    /\ DOMAIN arg = { "frequency_level", "topics" }
    /\ arg["frequency_level"] = Str(<<"Basic">>)
    /\ arg["topics"] = List(<< Str(<<"extra_advanced.religion">>),
                               Str(<<"basic_needs.numbers">>),
                               Str(<<"basic_needs.numbers">>),
                               Str(<<"extra_advanced.religion">>) >>)
    /\ target["frequency_level"] = Str(<<"common">>)
    /\ target["formality_level"] = Str(<<"neutral">>)
    /\ target["topics"] = List(<< Str(<<"extra_advanced.religion">>),
                                  Str(<<"basic_needs.numbers">>),
                                  Str(<<"basic_needs.numbers">>) >>)


\* ------------------------------------------ properties of the conjugation merge
\* the run wrote its output file
ConjugationsWritten == pc = "done" /\ out_file.written

\* the entries before the run and in the written file
ConjBefore(n) == dataset_file.data[n]
ConjAfter(n) == out_file.data[n]
IsVerbEntry(e) == Get(e, "class") = Str(<<"verb">>)

\* variant v is the key of some row of the present or of the past CSV
PresentRowFor(v) ==
    /\ v # <<>>
    /\ \E n \in 1..Len(csv_files.present.rows) :
           normalize(Str(CsvGet(csv_files.present.rows[n], "root"))) = v
PastRowFor(v) ==
    /\ v # <<>>
    /\ \E n \in 1..Len(csv_files.past.rows) :
           normalize(Str(CsvGet(csv_files.past.rows[n], "howa"))) = v

\* the entry is reported in the list `name` of the run
ReportedIn(name, e) ==
    \E n \in 1..Len(log_records[name]) : log_records[name][n].id = Get(e, "id")

\* the tables the first variant of an entry gives
FirstPresent(e) == ConjOf(read_present_by_root(csv_files.present), Variant(e, 1))
FirstPast(e) == ConjOf(read_past_by_howa(csv_files.past), Variant(e, 1))
SecondPresent(e) == ConjOf(read_present_by_root(csv_files.present), Variant(e, 2))
SecondPast(e) == ConjOf(read_past_by_howa(csv_files.past), Variant(e, 2))

\* the future an entry had before the run, None when it had none
PreviousFuture(e) ==
    IF "conjugations" \in DOMAIN e /\ e["conjugations"].k = "dict"
    THEN DictGet(e["conjugations"].v, "future")
    ELSE None

VerbPositions == { n \in 1..Len(dataset_file.data) : IsVerbEntry(ConjBefore(n)) }
HasTable(n) ==
    \/ Truthy(DictGet(ConjAfter(n)["conjugations"].v, "present"))
    \/ Truthy(DictGet(ConjAfter(n)["conjugations"].v, "past"))

CallsMade == target.calls
Slept == target.sleeps
IdsOf(list) == [n \in 1..Len(list) |-> DictGet(list[n].v, "id")]
BatchIds(word_batch) == [n \in 1..Len(word_batch) |-> word_batch[n]["id"]]
IsFallback(list) ==
    \A n \in 1..Len(list) :
        /\ list[n].k = "dict"
        /\ DictGet(list[n].v, "category") = Str(<<"other">>)
        /\ DictGet(list[n].v, "frequency_score") = Num("50")

\* C21: with max_retries >= 1 the classifier is called at most max_retries
\* times, the sleeps are 2^0, 2^1, ... one after each failed attempt but the
\* last, and the function returns a list as long as the batch: the answer of
\* the last call when that parsed to such a list (all calls before it having
\* failed), else, after max_retries failed calls, the fallback records with
\* the ids of the batch in order
C21_BoundedRetryWithFallback ==
    arg.max_retries >= 1 =>
        /\ CallsMade <= arg.max_retries
        /\ Len(Slept) <= arg.max_retries - 1
        /\ \A n \in 1..Len(Slept) : Slept[n] = 2 ^ (n - 1)
        /\ Len(Slept) = IF Returned /\ target.failed = arg.max_retries
                        THEN target.failed - 1 ELSE target.failed
        /\ Returned =>
               /\ ret.k = "list"
               /\ Len(ret.v) = Len(arg.word_batch)
               /\ CallsMade = IF target.failed = arg.max_retries
                              THEN target.failed ELSE target.failed + 1
               /\ IF target.failed < arg.max_retries
                  THEN /\ parse_response(target.response, arg.word_batch).ok
                       /\ ret = parse_response(target.response, arg.word_batch).result
                  ELSE /\ IsFallback(ret.v)
                       /\ IdsOf(ret.v) = BatchIds(arg.word_batch)

\* a call that returned an answer wrapped in prose after one failed attempt
\* and one sleep of 1 second
C21_Witness ==
    /\ Returned
    /\ arg.max_retries = 3
    /\ Len(arg.word_batch) = 2
    /\ target.failed = 1
    /\ Slept = << 1 >>
    /\ target.response.kind = "wrapped"
    /\ ret.k = "list"

\* a call that gave up after three failed attempts and sleeps of 1 and 2
C21_FallbackWitness ==
    /\ Returned
    /\ arg.max_retries = 3
    /\ target.failed = 3
    /\ Slept = << 1, 2 >>
    /\ IsFallback(ret.v)

\* ------------------------------------------------ properties of process_words
\* the ids in the output file when the run started, the words not among
\* them, and the records the run appended
IdsAtStart == { DictGet(target.before[n].v, "id") : n \in 1..Len(target.before) }
PendingWords == SelectSeq(dataset, LAMBDA w : w["id"] \notin IdsAtStart)
AppendedResults == SubSeq(out_file.data, Len(target.before) + 1, Len(out_file.data))
RECURSIVE Flatten(_)
Flatten(batches) ==
    IF batches = <<>> THEN <<>> ELSE Head(batches) \o Flatten(Tail(batches))
RunEnded == pc \in { "done", "error" }

\* C23: when the run has ended, no word whose id was in the output file at
\* the start was sent to the classifier, the words sent are the other words
\* of the dataset, each once and in dataset order, one record was appended for
\* each of them, and processed equals the number of dataset words
C23_ResumeRecordsEveryPendingWord ==
    RunEnded =>
        /\ Flatten(target.sent) = PendingWords
        /\ Len(AppendedResults) = Len(PendingWords)
        /\ stats.processed = Len(dataset)

\* ------------------------------------------- properties of the validation run
\* the records the run appended, and the items of the batches whose retry
\* loop has ended
ReviewAppended == SubSeq(out_file.data, Len(target.before) + 1, Len(out_file.data))
EndedItems == target.ended
BetweenBatches == pc \in { "rv_batch", "done", "error" } /\ stats # Unset
IsReviewFallback(record) ==
    /\ DictGet(record.v, "include") = Bool("False")
    /\ DictGet(record.v, "reason") \in
           { Str(<<"Kein Ergebnis vom Modell.">>),
             Str(<<"JSON-Parsing-Fehler nach 3 Versuchen.">>),
             Str(<<"API-Fehler nach 3 Versuchen">>) }
AnsweredIn(outcome, id) ==
    /\ outcome.kind = "results"
    /\ outcome.value.k = "list"
    /\ \E n \in 1..Len(outcome.value.v) :
           /\ outcome.value.v[n].k = "dict"
           /\ DictGet(outcome.value.v[n].v, "id") = id

\* C22: no retry loop makes more than 3 attempts, and whenever the run is
\* between batches or over, the appended records are one per item of the
\* batches handled so far, in order and with the item's id, each the model's
\* record or a fallback with include = false; the items handled are the
\* first pending ones, so no batch is written twice
C22_OneRecordPerPendingItem ==
    /\ target.tries <= 3
    /\ BetweenBatches =>
           /\ Len(ReviewAppended) = Len(EndedItems)
           /\ \A n \in 1..Len(EndedItems) :
                  /\ n <= Len(ReviewAppended)
                  /\ DictGet(ReviewAppended[n].v, "id") = Get(EndedItems[n], "id")
           /\ EndedItems \o target.pending
                  = SelectSeq(dataset, LAMBDA d : NotDone(d, DoneIds(target.before)))
           /\ LET last == Len(ReviewAppended)
              IN  last > 0 /\ ~IsReviewFallback(ReviewAppended[last])
                      => AnsweredIn(target.outcome,
                                    DictGet(ReviewAppended[last].v, "id"))
====
